---- MODULE Spec2Model ----
(***************************************************************************)
(* Verification model of the L-store engine:                               *)
(*   lstore/lock_manager.py      LockManager                               *)
(*   lstore/transaction.py       Transaction                               *)
(*   lstore/transaction_worker.py TransactionWorker                        *)
(*   lstore/query.py             Query                                     *)
(*   lstore/table.py, page.py, index.py   Table, Page, Index               *)
(*   lstore/bufferpool.py, db.py          Bufferpool, Database             *)
(*                                                                         *)
(* SpecLM      : the lock manager driven through its public interface.     *)
(* SpecTxn     : workers executing transactions over one lock manager and  *)
(*               the current values of the keys.                           *)
(* SpecTxnApi  : one thread using execute, begin, commit and abort.        *)
(* SpecTable   : one caller using insert, update and delete on a table     *)
(*               modelled at the level of page slots.                      *)
(* SpecWorkers : several workers inside create_record and update_record    *)
(*               of that table at the same time.                           *)
(* SpecPage    : one caller writing to a single Page.                      *)
(* SpecPool    : one caller of a Bufferpool over a few pages.              *)
(* SpecMerge   : one caller of insert, update and delete on a table about  *)
(*               to reach the merge threshold.                             *)
(* SpecRollback: one caller of insert, update and rollback_record.         *)
(* SpecVersions: select_version on tables with any indirection values.     *)
(* SpecIndex   : one caller of insert, update, delete, create_index and    *)
(*               rebuild_index.                                            *)
(* SpecReopen  : one caller of insert and delete on a table whose database *)
(*               is closed and opened again.                               *)
(* SpecDb      : callers of begin_transaction and commit_transaction.      *)
(***************************************************************************)
EXTENDS Integers, Sequences, FiniteSets, TLC

\* ------------------------------------------------------------------ bounds
NumOwners == 2          \* transaction ids calling the lock manager in SpecLM
MaxRid    == 0          \* lock-manager record ids are 0..MaxRid in SpecLM

NumTxns    == 2         \* Transaction objects in SpecTxn
NumThreads == 2         \* threads that execute transactions in SpecTxn
MaxRuns    == 2         \* executions of a transaction started, over all threads
MaxVal     == 3         \* column values are 0..MaxVal

Owners  == 1..NumOwners
Rids    == 0..MaxRid
Txns    == 1..NumTxns
Threads == 1..NumThreads
Keys    == 0..2         \* primary keys used by the queries of SpecTxn
Vals    == 0..MaxVal

\* --------------------------------------------------------------- constants
SHARED    == "SHARED"
EXCLUSIVE == "EXCLUSIVE"
LockType  == {SHARED, EXCLUSIVE}
NoOwner   == 0          \* the mutex LockManager._lock is free

VARIABLES
    record_locks,       \* LockManager.record_locks      {rid: [Lock, ...]}
    transaction_locks,  \* LockManager.transaction_locks {transaction_id: set(rid)}
    lm_mutex,           \* holder of LockManager._lock between calls (NoOwner = free)
    lm_call,            \* the last lock-manager call made in SpecLM and its outcome
    started,            \* Transaction._started,   per transaction
    committed,          \* Transaction._committed, per transaction
    aborted,            \* Transaction._aborted,   per transaction
    queries,            \* Transaction.queries,    per transaction
    results,            \* Transaction.results (truth value of each result)
    tbl,                \* the table: primary key -> current value, or Absent
    wpc,                \* per thread: where it is in TransactionWorker.run / execute
    wtxn,               \* per thread: the transaction it executes (txn)
    wcount,             \* per thread: transactions it has taken up so far
    qi,                 \* per thread: index i of the query loop of execute
    exec_lock_type,     \* per thread: local variable lock_type of execute
    stats,              \* per thread: TransactionWorker.stats
    run,                \* per thread: record of the current or last execute
    page_directory,     \* Table.page_directory  {rid: (kind, page index, slot)}
    base_pages,         \* per column: the values in the column's base page
    tail_pages,         \* per column: the values in the column's tail page
    indices,            \* Index.indices[table.key]  {key value: rid}
    next_rid,           \* Table._next_rid
    num_records,        \* Table.num_records
    num_updates,        \* Table.num_updates
    t_call,             \* the last Query call made in SpecTable and its outcome
    assigned,           \* the rids given to new base and tail records so far
    tpc,                \* per worker: where it is in create_record / update_record
    tloc,               \* per worker: the local variables of that call
    page_data,          \* one Page: the values of its slots; num_records is the length
    written,            \* slot -> the last value a successful write put there
    p_call,             \* the last Page.write made in SpecPage and its outcome
    pool,               \* Bufferpool.pool  {page id: (page, pin_count, is_dirty)}
    lru,                \* Bufferpool.lru   page ids, least recently used first
    disk,               \* the page files: page id -> the data written there
    b_call,             \* the last Bufferpool call made in SpecPool and its outcome
    active_transactions, \* Database.active_transactions, a set of ids
    d_call              \* the last Database call made in SpecDb and its outcome

lmVars  == <<record_locks, transaction_locks, lm_mutex>>
txnVars == <<started, committed, aborted, queries, results, tbl,
             wpc, wtxn, wcount, qi, exec_lock_type, stats, run>>
tableVars == <<page_directory, base_pages, tail_pages, indices,
               next_rid, num_records, num_updates>>
pageVars == <<page_data, written, p_call>>
poolVars == <<pool, lru, disk, b_call>>
dbVars  == <<active_transactions, d_call>>
vars    == <<record_locks, transaction_locks, lm_mutex, lm_call,
             started, committed, aborted, queries, results, tbl,
             wpc, wtxn, wcount, qi, exec_lock_type, stats, run,
             page_directory, base_pages, tail_pages, indices,
             next_rid, num_records, num_updates, t_call, assigned, tpc, tloc,
             page_data, written, p_call, pool, lru, disk, b_call,
             active_transactions, d_call>>

\* ------------------------------------------------------------ LockManager
Lock(transaction_id, lock_type) ==
    [transaction_id |-> transaction_id, lock_type |-> lock_type]

EmptyMap == [x \in {} |-> {}]

RemoveKey(f, k) == [x \in DOMAIN f \ {k} |-> f[x]]

\* The loop of acquire_lock over record_locks[rid], from position i on:
\* what the first decisive lock makes the call do.
RECURSIVE acquire_scan(_, _, _, _)
acquire_scan(locks, i, transaction_id, lock_type) ==
    IF i > Len(locks)
    THEN [kind |-> "append", at |-> 0]
    ELSE IF locks[i].transaction_id # transaction_id
         THEN IF locks[i].lock_type = EXCLUSIVE \/ lock_type = EXCLUSIVE
              THEN [kind |-> "conflict", at |-> i]
              ELSE acquire_scan(locks, i + 1, transaction_id, lock_type)
         ELSE IF locks[i].lock_type = lock_type
              THEN [kind |-> "held", at |-> i]
              ELSE IF locks[i].lock_type = SHARED /\ lock_type = EXCLUSIVE
                   THEN [kind |-> "upgrade", at |-> i]
                   ELSE acquire_scan(locks, i + 1, transaction_id, lock_type)

\* acquire_lock that enters the rid in the reverse map before it looks at
\* the locks of the rid, so that a refused request leaves it there.
acquire_lock_registers_first(rl, tl, transaction_id, rid, lock_type) ==
    LET rl1 == IF rid \in DOMAIN rl THEN rl ELSE rl @@ (rid :> <<>>)
        tl1 == IF transaction_id \in DOMAIN tl
               THEN [tl EXCEPT ![transaction_id] = @ \cup {rid}]
               ELSE tl @@ (transaction_id :> {rid})
        s   == acquire_scan(rl1[rid], 1, transaction_id, lock_type)
    IN  CASE s.kind = "conflict" ->
               [ok |-> FALSE, rl |-> rl1, tl |-> tl1]
          [] s.kind = "held" ->
               [ok |-> TRUE, rl |-> rl1, tl |-> tl1]
          [] s.kind = "upgrade" ->
               [ok |-> TRUE,
                rl |-> [rl1 EXCEPT ![rid][s.at].lock_type = EXCLUSIVE],
                tl |-> tl1]
          [] s.kind = "append" ->
               [ok |-> TRUE,
                rl |-> [rl1 EXCEPT ![rid] = Append(@, Lock(transaction_id, lock_type))],
                tl |-> tl1]

\* acquire_lock: ok = FALSE stands for raising LockConflictError.
acquire_lock(rl, tl, transaction_id, rid, lock_type) ==
    LET rl1 == IF rid \in DOMAIN rl THEN rl ELSE rl @@ (rid :> <<>>)
        tl1 == IF transaction_id \in DOMAIN tl THEN tl
               ELSE tl @@ (transaction_id :> {})
        s   == acquire_scan(rl1[rid], 1, transaction_id, lock_type)
    IN  CASE s.kind = "conflict" ->
               [ok |-> FALSE, rl |-> rl1, tl |-> tl1]
          [] s.kind = "held" ->
               [ok |-> TRUE, rl |-> rl1, tl |-> tl1]
          [] s.kind = "upgrade" ->
               [ok |-> TRUE,
                rl |-> [rl1 EXCEPT ![rid][s.at].lock_type = EXCLUSIVE],
                tl |-> tl1]
          [] s.kind = "append" ->
               [ok |-> TRUE,
                rl |-> [rl1 EXCEPT ![rid] = Append(@, Lock(transaction_id, lock_type))],
                tl |-> [tl1 EXCEPT ![transaction_id] = @ \cup {rid}]]

NotOwnedBy(transaction_id, lock) == lock.transaction_id # transaction_id

\* release_lock that forgets record_locks and only updates the reverse map.
release_lock_reverse_only(rl, tl, transaction_id, rid) ==
    LET left == tl[transaction_id] \ {rid}
        tl1  == IF transaction_id \in DOMAIN tl
                THEN IF left = {} THEN RemoveKey(tl, transaction_id)
                     ELSE [tl EXCEPT ![transaction_id] = left]
                ELSE tl
    IN  [rl |-> rl, tl |-> tl1]

release_lock(rl, tl, transaction_id, rid) ==
    LET kept == SelectSeq(rl[rid], LAMBDA lock : NotOwnedBy(transaction_id, lock))
        rl1  == IF rid \in DOMAIN rl
                THEN IF kept = <<>> THEN RemoveKey(rl, rid)
                     ELSE [rl EXCEPT ![rid] = kept]
                ELSE rl
        left == tl[transaction_id] \ {rid}
        tl1  == IF transaction_id \in DOMAIN tl
                THEN IF left = {} THEN RemoveKey(tl, transaction_id)
                     ELSE [tl EXCEPT ![transaction_id] = left]
                ELSE tl
    IN  [rl |-> rl1, tl |-> tl1]

\* release_all_locks takes self._lock and, for every rid of the transaction,
\* calls release_lock, which takes self._lock again.  threading.Lock is not
\* reentrant: with at least one rid to release the caller blocks for ever
\* while holding the mutex.
release_all_locks_blocks(tl, transaction_id) ==
    /\ transaction_id \in DOMAIN tl
    /\ tl[transaction_id] # {}

has_lock(rl, transaction_id, rid, lock_type) ==
    /\ rid \in DOMAIN rl
    /\ \E i \in 1..Len(rl[rid]) :
          /\ rl[rid][i].transaction_id = transaction_id
          /\ (lock_type = "ANY" \/ rl[rid][i].lock_type = lock_type)

\* Modes transaction_id holds on rid, and modes the other transactions hold.
HeldModes(rl, transaction_id, rid) ==
    IF rid \in DOMAIN rl
    THEN {rl[rid][i].lock_type : i \in {j \in 1..Len(rl[rid]) :
                                          rl[rid][j].transaction_id = transaction_id}}
    ELSE {}

OtherModes(rl, transaction_id, rid) ==
    IF rid \in DOMAIN rl
    THEN {rl[rid][i].lock_type : i \in {j \in 1..Len(rl[rid]) :
                                          rl[rid][j].transaction_id # transaction_id}}
    ELSE {}

Holders(rl, rid) ==
    IF rid \in DOMAIN rl
    THEN {rl[rid][i].transaction_id : i \in 1..Len(rl[rid])}
    ELSE {}

\* The set of (transaction, rid, mode) holdings of a lock table.
Holdings(rl) ==
    UNION {{<<rl[r][i].transaction_id, r, rl[r][i].lock_type>> : i \in 1..Len(rl[r])} :
           r \in DOMAIN rl}

\* Number of Lock objects transaction_id has in record_locks[rid].
OwnEntries(rl, transaction_id, rid) ==
    IF rid \in DOMAIN rl
    THEN Cardinality({i \in 1..Len(rl[rid]) : rl[rid][i].transaction_id = transaction_id})
    ELSE 0

\* ------------------------------------------------- SpecLM: the interface
\* lm_call records the call just made: its arguments, its outcome, the modes
\* the caller held on the rid when it called (had; for release_all: on any
\* rid) and the modes other transactions held on it (others).
Call(op, t, r, m, res, had, others) ==
    [op |-> op, txn |-> t, rid |-> r, mode |-> m, res |-> res,
     had |-> had, others |-> others]

NoCall == Call("none", 0, 0, "none", "none", {}, {})

InitLockManager ==
    /\ record_locks = EmptyMap
    /\ transaction_locks = EmptyMap
    /\ lm_mutex = NoOwner
    /\ lm_call = NoCall

\* In SpecLM no transaction object and no thread exists.
NoTransactions ==
    /\ started = <<>> /\ committed = <<>> /\ aborted = <<>>
    /\ queries = <<>> /\ results = <<>> /\ tbl = <<>>
    /\ wpc = <<>> /\ wtxn = <<>> /\ wcount = <<>> /\ qi = <<>>
    /\ exec_lock_type = <<>> /\ stats = <<>> /\ run = <<>>

\* In SpecLM, SpecTxn and SpecTxnApi no Table object exists.
\* No single page and no bufferpool are in use.
NoPage == page_data = <<>> /\ written = <<>> /\ p_call = <<>>
NoDatabase == active_transactions = {} /\ d_call = <<>>
NoPool == pool = <<>> /\ lru = <<>> /\ disk = <<>> /\ b_call = <<>> /\ NoDatabase

NoPageStep == UNCHANGED pageVars
NoDatabaseStep == UNCHANGED dbVars
NoPoolStep == UNCHANGED poolVars /\ NoDatabaseStep

\* No table is in use.
NoTableData ==
    /\ page_directory = <<>> /\ base_pages = <<>> /\ tail_pages = <<>>
    /\ indices = <<>> /\ next_rid = 0 /\ num_records = 0 /\ num_updates = 0
    /\ t_call = <<>> /\ assigned = {} /\ tpc = <<>> /\ tloc = <<>>

NoTable == NoTableData /\ NoPage /\ NoPool

NoTableDataStep == UNCHANGED <<tableVars, t_call, assigned, tpc, tloc>>

NoTableStep == NoTableDataStep /\ NoPageStep /\ NoPoolStep

InitLM == InitLockManager /\ NoTransactions /\ NoTable

Acquire(t, r, m) ==
    /\ lm_mutex = NoOwner
    /\ LET a == acquire_lock(record_locks, transaction_locks, t, r, m)
       IN  /\ record_locks' = a.rl
           /\ transaction_locks' = a.tl
           /\ lm_call' = Call("acquire", t, r, m,
                              IF a.ok THEN "granted" ELSE "conflict",
                              HeldModes(record_locks, t, r),
                              OtherModes(record_locks, t, r))
    /\ UNCHANGED lm_mutex

Release(t, r) ==
    /\ lm_mutex = NoOwner
    /\ LET a == release_lock(record_locks, transaction_locks, t, r)
       IN  /\ record_locks' = a.rl
           /\ transaction_locks' = a.tl
    /\ lm_call' = Call("release", t, r, "none", "returned",
                       HeldModes(record_locks, t, r),
                       OtherModes(record_locks, t, r))
    /\ UNCHANGED lm_mutex

ReleaseAll(t) ==
    /\ lm_mutex = NoOwner
    /\ lm_mutex' = IF release_all_locks_blocks(transaction_locks, t)
                   THEN t ELSE NoOwner
    /\ lm_call' = Call("release_all", t, 0, "none",
                       IF release_all_locks_blocks(transaction_locks, t)
                       THEN "blocked" ELSE "returned",
                       UNION {HeldModes(record_locks, t, r) : r \in Rids}, {})
    /\ UNCHANGED <<record_locks, transaction_locks>>

ClearAll ==
    /\ lm_mutex = NoOwner
    /\ record_locks' = EmptyMap
    /\ transaction_locks' = EmptyMap
    /\ lm_call' = Call("clear_all", 0, 0, "none", "returned", {}, {})
    /\ UNCHANGED lm_mutex

NextLM ==
    \/ \E t \in Owners, r \in Rids, m \in LockType : Acquire(t, r, m) /\ UNCHANGED txnVars /\ NoTableStep
    \/ \E t \in Owners, r \in Rids : Release(t, r) /\ UNCHANGED txnVars /\ NoTableStep
    \/ \E t \in Owners : ReleaseAll(t) /\ UNCHANGED txnVars /\ NoTableStep
    \/ ClearAll /\ UNCHANGED txnVars /\ NoTableStep

SpecLM == InitLM /\ [][NextLM]_vars

\* C39: record_locks and transaction_locks agree after every call: a rid is
\* in the set that transaction_locks keeps for a transaction exactly when
\* the lock list of the rid holds a lock of that transaction.
C39_MapsConsistent ==
    \A t \in Owners, r \in Rids :
        (t \in DOMAIN transaction_locks /\ r \in transaction_locks[t])
            <=> t \in Holders(record_locks, r)

\* An acquire has just been refused: the caller has no lock on the rid and
\* an empty set in transaction_locks, while another transaction holds the
\* rid and has it in its set.
C39_Witness ==
    /\ lm_call.op = "acquire" /\ lm_call.res = "conflict"
    /\ lm_call.txn \notin Holders(record_locks, lm_call.rid)
    /\ lm_call.txn \in DOMAIN transaction_locks
    /\ transaction_locks[lm_call.txn] = {}
    /\ \E t \in Owners \ {lm_call.txn} :
          /\ t \in Holders(record_locks, lm_call.rid)
          /\ lm_call.rid \in transaction_locks[t]

\* ------------------------------------------------- Query: current values
\* The table of SpecTxn is seen through its primary index and base records:
\* tbl[k] is the current value of the value column of key k, or Absent when
\* the primary index has no entry for k.  Fewer than MERGE_THRESHOLD updates
\* are made, so update_record never invokes the merge.
Absent == -1            \* Index.locate finds no rid for the key (None)

Q(op, key, arg) == [op |-> op, key |-> key, arg |-> arg]

Effect(raises, truthy, t) == [raises |-> raises, truthy |-> truthy, tbl |-> t]

\* What query_func(*args) does: whether it raises, the truth value of what
\* it returns, and the table after it.
\*   select          [record] for a key of the index, else False
\*   select_version  always a one-element list
\*   sum             Index.locate_range calls self._debug_log(message, level)
\*                   with one argument too many; sum catches the TypeError and
\*                   returns False
\*   sum_version     the same TypeError, caught, returns 0
\*   insert          create_record, which does not look for an existing key
\*   update, delete  False for a key that is not in the index
\*   increment       select(...)[0] raises TypeError when select returns False
QueryEffect(q, t) ==
    CASE q.op = "select"         -> Effect(FALSE, t[q.key] # Absent, t)
      [] q.op = "select_version" -> Effect(FALSE, TRUE, t)
      [] q.op = "sum"            -> Effect(FALSE, FALSE, t)
      [] q.op = "sum_version"    -> Effect(FALSE, FALSE, t)
      [] q.op = "insert"         -> Effect(FALSE, TRUE, [t EXCEPT ![q.key] = q.arg])
      [] q.op = "update"         -> IF t[q.key] = Absent
                                    THEN Effect(FALSE, FALSE, t)
                                    ELSE Effect(FALSE, TRUE, [t EXCEPT ![q.key] = q.arg])
      [] q.op = "delete"         -> IF t[q.key] = Absent
                                    THEN Effect(FALSE, FALSE, t)
                                    ELSE Effect(FALSE, TRUE, [t EXCEPT ![q.key] = Absent])
      [] q.op = "increment"      -> IF t[q.key] = Absent
                                    THEN Effect(TRUE, FALSE, t)
                                    ELSE Effect(FALSE, TRUE, [t EXCEPT ![q.key] = @ + 1])

\* ------------------------------------------------------------ Transaction
\* TransactionWorker.MAX_RETRIES
MAX_RETRIES == 3

\* lock_type = SHARED if query_func.__name__ == 'select' else EXCLUSIVE
LockTypeFor(op) == IF op = "select" THEN SHARED ELSE EXCLUSIVE

\* A test that never finds a later use of the key.
KeyUsedLater_never(qs, i) == FALSE

\* any(args[0] == next_args[0] for ... in self.queries[i+1:])
KeyUsedLater(qs, i) == \E j \in (i + 1)..Len(qs) : qs[j].key = qs[i].key

\* The query lists the transactions are built with (add_query).
ProgramList ==
    << << Q("select", 0, 0), Q("update", 0, 2) >>,
       << Q("update", 0, 2), Q("update", 2, 2) >>,
       << Q("increment", 0, 0), Q("increment", 2, 0), Q("increment", 0, 0) >>,
       << Q("insert", 2, 1), Q("sum", 0, 2), Q("delete", 1, 0) >>,
       << Q("select_version", 1, 0), Q("sum_version", 2, 2) >> >>

Programs == { ProgramList[i] : i \in 1..Len(ProgramList) }


\* The transactions of a run hold consecutive programs of the list, the
\* list taken as a ring: neighbours share a key, which is where transactions
\* meet, and transaction ids are interchangeable (the lock manager orders
\* holders by arrival, never by id).
Workloads ==
    { [t \in Txns |-> ProgramList[((start + t - 2) % Len(ProgramList)) + 1]] :
        start \in 1..Len(ProgramList) }

NoRun == [kind |-> "none", snap |-> <<>>, falsy |-> 0, raised |-> 0, outcome |-> "none"]

NewRun(kind) == [kind |-> kind, snap |-> tbl, falsy |-> 0, raised |-> 0, outcome |-> "running"]

InitTxn ==
    /\ InitLockManager
    /\ started   = [t \in Txns |-> FALSE]
    /\ committed = [t \in Txns |-> FALSE]
    /\ aborted   = [t \in Txns |-> FALSE]
    /\ queries \in Workloads
    /\ results   = [t \in Txns |-> << >>]
    /\ tbl       = [k \in Keys |-> IF k \in {0, 1} THEN 1 ELSE Absent]
    /\ wpc       = [th \in Threads |-> "idle"]
    /\ wtxn      = [th \in Threads |-> 0]
    /\ wcount    = [th \in Threads |-> 0]
    /\ qi        = [th \in Threads |-> 0]
    /\ exec_lock_type = [th \in Threads |-> "none"]
    /\ stats     = [th \in Threads |-> [success |-> 0, failed |-> 0]]
    /\ run       = [th \in Threads |-> NoRun]
    /\ NoTable

\* Executions started so far, by the threads 1..n.
RECURSIVE RunsStarted(_)
RunsStarted(n) == IF n = 0 THEN 0 ELSE wcount[n] + RunsStarted(n - 1)

\* No thread is inside execute of transaction t.
TxnIdle(t) == \A th \in Threads : wpc[th] \in {"idle"} \/ wtxn[th] # t

\* How an execute ends for the thread: TransactionWorker.run counts it, a
\* direct caller gets the return value or the exception.
Finish(th, outcome, success) ==
    /\ wpc' = [wpc EXCEPT ![th] = "idle"]
    /\ qi' = [qi EXCEPT ![th] = 0]
    /\ exec_lock_type' = [exec_lock_type EXCEPT ![th] = "none"]
    /\ run' = [run EXCEPT ![th].outcome = outcome]
    /\ stats' = IF run[th].kind = "worker"
                THEN IF success
                     THEN [stats EXCEPT ![th].success = @ + 1]
                     ELSE [stats EXCEPT ![th].failed = @ + 1]
                ELSE stats

\* TransactionWorker.run, one iteration: reset the flags, then txn.execute().
\* Worker threads are interchangeable, so they are numbered in the order in
\* which they first run a transaction.
WorkerNext(th, t) ==
    /\ wpc[th] = "idle" /\ RunsStarted(NumThreads) < MaxRuns /\ TxnIdle(t)
    /\ IF th = 1 THEN TRUE ELSE wcount[th - 1] > 0
    /\ started'   = [started EXCEPT ![t] = FALSE]
    /\ committed' = [committed EXCEPT ![t] = FALSE]
    /\ aborted'   = [aborted EXCEPT ![t] = FALSE]
    /\ wtxn' = [wtxn EXCEPT ![th] = t]
    /\ wcount' = [wcount EXCEPT ![th] = @ + 1]
    /\ run' = [run EXCEPT ![th] = NewRun("worker")]
    /\ wpc' = [wpc EXCEPT ![th] = "begin"]
    /\ UNCHANGED <<lmVars, lm_call, queries, results, tbl, qi, exec_lock_type, stats>>

\* txn.execute() called directly by a thread.
DirectExecute(th, t) ==
    /\ wpc[th] = "idle" /\ RunsStarted(NumThreads) < MaxRuns /\ TxnIdle(t)
    /\ wtxn' = [wtxn EXCEPT ![th] = t]
    /\ wcount' = [wcount EXCEPT ![th] = @ + 1]
    /\ run' = [run EXCEPT ![th] = NewRun("direct")]
    /\ wpc' = [wpc EXCEPT ![th] = "begin"]
    /\ UNCHANGED <<lmVars, lm_call, started, committed, aborted, queries, results,
                   tbl, qi, exec_lock_type, stats>>

\* Transaction.begin: the flags after the call.
begin(t) == IF started[t] THEN started ELSE [started EXCEPT ![t] = TRUE]

\* execute: if not self.begin(): return False
ExecBegin(th) ==
    LET t == wtxn[th] IN
    /\ wpc[th] = "begin"
    /\ started' = begin(t)
    /\ IF started[t]
       THEN Finish(th, "refused", FALSE)
       ELSE /\ wpc' = [wpc EXCEPT ![th] = IF queries[t] = << >> THEN "commit" ELSE "acquire"]
            /\ qi' = [qi EXCEPT ![th] = 1]
            /\ UNCHANGED <<run, stats, exec_lock_type>>
    /\ UNCHANGED <<lmVars, lm_call, committed, aborted, queries, results, tbl,
                   wtxn, wcount>>

\* execute: choose lock_type and call acquire_lock on args[0].
ExecAcquire(th) ==
    LET t  == wtxn[th]
        q  == queries[t][qi[th]]
        lt == LockTypeFor(q.op)
        a  == acquire_lock(record_locks, transaction_locks, t, q.key, lt)
    IN
    /\ wpc[th] = "acquire"
    /\ lm_mutex = NoOwner
    /\ exec_lock_type' = [exec_lock_type EXCEPT ![th] = lt]
    /\ record_locks' = a.rl
    /\ transaction_locks' = a.tl
    /\ IF a.ok
       THEN /\ wpc' = [wpc EXCEPT ![th] = "query"]
            /\ UNCHANGED run
       ELSE /\ wpc' = [wpc EXCEPT ![th] = "except"]
            /\ run' = [run EXCEPT ![th].raised = qi[th]]
    /\ UNCHANGED <<lm_mutex, lm_call, started, committed, aborted, queries, results,
                   tbl, wtxn, wcount, qi, stats>>

\* Where the query loop goes after query i: the next query or the commit.
Advance(th) ==
    /\ qi' = [qi EXCEPT ![th] = @ + 1]
    /\ wpc' = [wpc EXCEPT ![th] = IF qi[th] < Len(queries[wtxn[th]])
                                  THEN "acquire" ELSE "commit"]

\* execute: result = query_func(*args); self.results.append(result); then
\* the test whether a later query uses the same key.
ExecQuery(th) ==
    LET t == wtxn[th]
        q == queries[t][qi[th]]
        e == QueryEffect(q, tbl)
    IN
    /\ wpc[th] = "query"
    /\ q.op = "increment" /\ tbl[q.key] # Absent => tbl[q.key] < MaxVal
    /\ tbl' = e.tbl
    /\ IF e.raises
       THEN /\ wpc' = [wpc EXCEPT ![th] = "except"]
            /\ run' = [run EXCEPT ![th].raised = qi[th]]
            /\ UNCHANGED <<results, qi>>
       ELSE /\ results' = [results EXCEPT ![t] = Append(@, e.truthy)]
            /\ run' = [run EXCEPT ![th].falsy =
                          IF ~e.truthy /\ @ = 0 THEN qi[th] ELSE @]
            /\ IF KeyUsedLater(queries[t], qi[th])
               THEN Advance(th)
               ELSE /\ wpc' = [wpc EXCEPT ![th] = "release"]
                    /\ UNCHANGED qi
    /\ UNCHANGED <<lmVars, lm_call, started, committed, aborted, queries,
                   wtxn, wcount, exec_lock_type, stats>>

\* execute: self.lock_manager.release_lock(self.transaction_id, args[0])
\* after the last operation on the key.
ExecRelease(th) ==
    LET t == wtxn[th]
        q == queries[t][qi[th]]
        a == release_lock(record_locks, transaction_locks, t, q.key)
    IN
    /\ wpc[th] = "release"
    /\ lm_mutex = NoOwner
    /\ record_locks' = a.rl
    /\ transaction_locks' = a.tl
    /\ Advance(th)
    /\ UNCHANGED <<lm_mutex, lm_call, started, committed, aborted, queries, results,
                   tbl, wtxn, wcount, exec_lock_type, stats, run>>

\* execute, inner except: release_lock on args[0], then re-raise.
ExecExcept(th) ==
    LET t == wtxn[th]
        q == queries[t][qi[th]]
        a == release_lock(record_locks, transaction_locks, t, q.key)
    IN
    /\ wpc[th] = "except"
    /\ lm_mutex = NoOwner
    /\ record_locks' = a.rl
    /\ transaction_locks' = a.tl
    /\ wpc' = [wpc EXCEPT ![th] = "abort"]
    /\ UNCHANGED <<lm_mutex, lm_call, started, committed, aborted, queries, results,
                   tbl, wtxn, wcount, qi, exec_lock_type, stats, run>>

\* Transaction.commit passes its guard.
commit_allowed(t) == started[t] /\ ~committed[t] /\ ~aborted[t]

\* An abort guard that does not look at _committed.
abort_allowed_if_started(t) == started[t]

\* Transaction.abort passes its guard.
abort_allowed(t) == started[t] /\ ~committed[t]

\* execute: return self.commit()
ExecCommit(th) ==
    LET t == wtxn[th] IN
    /\ wpc[th] = "commit"
    /\ IF ~commit_allowed(t)
       THEN /\ Finish(th, "commit_refused", FALSE)
            /\ UNCHANGED <<lm_mutex, committed>>
       ELSE /\ lm_mutex = NoOwner
            /\ IF release_all_locks_blocks(transaction_locks, t)
               THEN /\ lm_mutex' = t
                    /\ wpc' = [wpc EXCEPT ![th] = "blocked"]
                    /\ UNCHANGED <<committed, run, stats, qi, exec_lock_type>>
               ELSE /\ committed' = [committed EXCEPT ![t] = TRUE]
                    /\ Finish(th, "committed", TRUE)
                    /\ UNCHANGED lm_mutex
    /\ UNCHANGED <<record_locks, transaction_locks, lm_call, started, aborted, queries,
                   results, tbl, wtxn, wcount>>

\* execute, outer except: self.abort(), then raise TransactionAbortError.
ExecAbort(th) ==
    LET t == wtxn[th] IN
    /\ wpc[th] = "abort"
    /\ IF ~abort_allowed(t)
       THEN /\ Finish(th, "abort_refused", FALSE)
            /\ UNCHANGED <<lm_mutex, aborted>>
       ELSE /\ lm_mutex = NoOwner
            /\ IF release_all_locks_blocks(transaction_locks, t)
               THEN /\ lm_mutex' = t
                    /\ wpc' = [wpc EXCEPT ![th] = "blocked"]
                    /\ UNCHANGED <<aborted, run, stats, qi, exec_lock_type>>
               ELSE /\ aborted' = [aborted EXCEPT ![t] = TRUE]
                    /\ Finish(th, "aborted", FALSE)
                    /\ UNCHANGED lm_mutex
    /\ UNCHANGED <<record_locks, transaction_locks, lm_call, started, committed, queries,
                   results, tbl, wtxn, wcount>>

\* begin, commit and abort called on a transaction that no thread executes.
UserBegin(t) ==
    /\ TxnIdle(t)
    /\ started' = begin(t)
    /\ UNCHANGED <<lmVars, lm_call, committed, aborted, queries, results, tbl,
                   wpc, wtxn, wcount, qi, exec_lock_type, stats, run>>

UserCommit(t) ==
    /\ TxnIdle(t)
    /\ commit_allowed(t)
    /\ lm_mutex = NoOwner
    /\ IF release_all_locks_blocks(transaction_locks, t)
       THEN lm_mutex' = t /\ UNCHANGED committed
       ELSE committed' = [committed EXCEPT ![t] = TRUE] /\ UNCHANGED lm_mutex
    /\ UNCHANGED <<record_locks, transaction_locks, lm_call, started, aborted, queries,
                   results, tbl, wpc, wtxn, wcount, qi, exec_lock_type, stats, run>>

UserAbort(t) ==
    /\ TxnIdle(t)
    /\ abort_allowed(t)
    /\ lm_mutex = NoOwner
    /\ IF release_all_locks_blocks(transaction_locks, t)
       THEN lm_mutex' = t /\ UNCHANGED aborted
       ELSE aborted' = [aborted EXCEPT ![t] = TRUE] /\ UNCHANGED lm_mutex
    /\ UNCHANGED <<record_locks, transaction_locks, lm_call, started, committed, queries,
                   results, tbl, wpc, wtxn, wcount, qi, exec_lock_type, stats, run>>

\* Threads are TransactionWorker threads, each running its loop.
NextTxn ==
    \/ \E th \in Threads, t \in Txns : WorkerNext(th, t) /\ NoTableStep
    \/ \E th \in Threads : ExecBegin(th) /\ NoTableStep
    \/ \E th \in Threads : ExecAcquire(th) /\ NoTableStep
    \/ \E th \in Threads : ExecQuery(th) /\ NoTableStep
    \/ \E th \in Threads : ExecRelease(th) /\ NoTableStep
    \/ \E th \in Threads : ExecExcept(th) /\ NoTableStep
    \/ \E th \in Threads : ExecCommit(th) /\ NoTableStep
    \/ \E th \in Threads : ExecAbort(th) /\ NoTableStep

SpecTxn == InitTxn /\ [][NextTxn]_vars

\* One caller (thread 1) uses the Transaction objects through every entry
\* point: a worker iteration, execute, begin, commit and abort.
NextTxnApi ==
    \/ \E t \in Txns : WorkerNext(1, t) /\ NoTableStep
    \/ \E t \in Txns : DirectExecute(1, t) /\ NoTableStep
    \/ ExecBegin(1) /\ NoTableStep
    \/ ExecAcquire(1) /\ NoTableStep
    \/ ExecQuery(1) /\ NoTableStep
    \/ ExecRelease(1) /\ NoTableStep
    \/ ExecExcept(1) /\ NoTableStep
    \/ ExecCommit(1) /\ NoTableStep
    \/ ExecAbort(1) /\ NoTableStep
    \/ \E t \in Txns : UserBegin(t) /\ NoTableStep
    \/ \E t \in Txns : UserCommit(t) /\ NoTableStep
    \/ \E t \in Txns : UserAbort(t) /\ NoTableStep

SpecTxnApi == InitTxn /\ [][NextTxnApi]_vars

\* ------------------------------------------------- claims on SpecLM

\* C1: for every rid, if some transaction holds an EXCLUSIVE lock on it then
\* no other transaction holds any lock (SHARED or EXCLUSIVE) on it.
C1_ExclusiveExcludesOthers ==
    \A r \in DOMAIN record_locks :
        \A i, j \in 1..Len(record_locks[r]) :
            record_locks[r][i].lock_type = EXCLUSIVE
                => record_locks[r][j].transaction_id = record_locks[r][i].transaction_id

\* C2: an acquire made while another transaction holds the rid, where that
\* lock or the request is EXCLUSIVE, fails with a conflict and leaves the
\* holdings as they were; a SHARED request against SHARED holders or no
\* holders is granted.
C2_AcquireConflictOrGrant ==
    [][ lm_call'.op = "acquire" =>
          IF lm_call'.others # {}
             /\ (EXCLUSIVE \in lm_call'.others \/ lm_call'.mode = EXCLUSIVE)
          THEN /\ lm_call'.res = "conflict"
               /\ Holdings(record_locks') = Holdings(record_locks)
          ELSE lm_call'.mode = SHARED => lm_call'.res = "granted" ]_vars

\* C3: when t held EXCLUSIVE on r and no third transaction holds r, then
\* after release(t, r) an acquire on r by any other transaction, in either
\* mode, is granted, while the same acquire made before the release fails.
C3_ReleaseThenAcquire ==
    [][ (lm_call'.op = "release" /\ EXCLUSIVE \in lm_call'.had) =>
          \A t2 \in Owners \ {lm_call'.txn}, m \in LockType :
              Holders(record_locks, lm_call'.rid) \subseteq {lm_call'.txn, t2} =>
                  /\ HeldModes(record_locks', lm_call'.txn, lm_call'.rid) = {}
                  /\ acquire_lock(record_locks', transaction_locks',
                                  t2, lm_call'.rid, m).ok
                  /\ ~acquire_lock(record_locks, transaction_locks,
                                   t2, lm_call'.rid, m).ok ]_vars

\* C3 witness: a release by a transaction that held EXCLUSIVE has returned
\* and the rid is free for the others.
C3_Witness ==
    /\ lm_call.op = "release"
    /\ EXCLUSIVE \in lm_call.had
    /\ lm_call.rid \notin DOMAIN record_locks

\* C4: release_all(t) returns, also when t holds locks, and on return t
\* holds no lock on any rid.
C4_ReleaseAllReturns ==
    lm_call.op = "release_all" =>
        /\ lm_call.res = "returned"
        /\ \A r \in Rids : HeldModes(record_locks, lm_call.txn, r) = {}

\* C5: an acquire by a transaction that already holds the requested mode, or
\* EXCLUSIVE, on the rid is granted and leaves it with exactly one lock entry
\* on the rid, in the mode it had before the call.
C5_ReacquireIdempotent ==
    (lm_call.op = "acquire" /\ (lm_call.mode \in lm_call.had \/ EXCLUSIVE \in lm_call.had)) =>
        /\ lm_call.res = "granted"
        /\ OwnEntries(record_locks, lm_call.txn, lm_call.rid) = 1
        /\ HeldModes(record_locks, lm_call.txn, lm_call.rid) = lm_call.had

\* ------------------------------------------------- claims on SpecTxn

\* The execute of thread th has returned.
Returned(th) == wpc[th] = "idle" /\ run[th].outcome \notin {"none", "running"}

\* C6: when a query of a transaction fails, then after execute returns the
\* current value of every key is what it was before the transaction
\* started (stated for an execute that ran with no other execute beside it).
C6_FailedTransactionHasNoEffect ==
    \A th \in Threads :
        (/\ Returned(th)
         /\ RunsStarted(NumThreads) = 1
         /\ (run[th].falsy # 0 \/ run[th].raised # 0))
        => tbl = run[th].snap

\* C7: once a query of an execute has returned a falsy value, no later
\* queued query is run and the execute does not end committed.
C7_FalsyResultAborts ==
    \A th \in Threads :
        run[th].falsy # 0 =>
            /\ run[th].outcome # "committed"
            /\ wpc[th] \in {"acquire", "query", "release", "except"}
                  => qi[th] <= run[th].falsy

\* C8: no execute stays for ever inside release_all_locks, and when an
\* execute has returned the transaction is committed or aborted and holds no
\* lock.
C8_ExecuteEndsWithoutLocks ==
    \A th \in Threads :
        /\ wpc[th] # "blocked"
        /\ (Returned(th) /\ TxnIdle(wtxn[th])) =>
              /\ run[th].outcome \in {"committed", "aborted"}
              /\ \A k \in Keys : HeldModes(record_locks, wtxn[th], k) = {}

\* The operations the specification calls reads.
ReadOps == {"select", "sum", "select_version", "sum_version"}

\* C10: while a query runs, the lock execute requested for it is SHARED for
\* a read and EXCLUSIVE for a write, and the transaction holds it on the key
\* at argument position 0.
C10_LockModeByOperation ==
    \A th \in Threads :
        wpc[th] = "query" =>
            LET q == queries[wtxn[th]][qi[th]] IN
            /\ exec_lock_type[th] = IF q.op \in ReadOps THEN SHARED ELSE EXCLUSIVE
            /\ has_lock(record_locks, wtxn[th], q.key, exec_lock_type[th])

\* ------------------------------------------------- claims on SpecTxnApi

\* The step keeps transaction t on the path new -> active -> committed or
\* aborted, with the last two final.
Monotone(t) ==
    /\ started[t] => started'[t]
    /\ committed[t] => committed'[t] /\ ~aborted'[t]
    /\ aborted[t] => aborted'[t] /\ ~committed'[t]
    /\ ~started[t] => ~committed'[t] /\ ~aborted'[t]

\* C9 as claimed: every step, a worker's included, keeps every transaction
\* on that path.
C9_StateMonotonic ==
    [][ \A t \in Txns : Monotone(t) ]_vars

\* The step is the start of a TransactionWorker.run iteration on t.
WorkerTakes(t) ==
    \E th \in Threads :
        /\ wpc[th] = "idle" /\ wpc'[th] = "begin"
        /\ wtxn'[th] = t /\ run'[th].kind = "worker"

\* C9 amended: begin, commit, abort and execute keep every transaction on the
\* path new -> active -> committed or aborted; the one step that leaves it is
\* the reset of TransactionWorker.run, which makes the transaction new.
C9_MonotonicUntilWorkerReset ==
    [][ \A t \in Txns :
          IF WorkerTakes(t)
          THEN ~started'[t] /\ ~committed'[t] /\ ~aborted'[t]
          ELSE Monotone(t) ]_vars

\* C9 witness: execute was called on a committed transaction, was refused by
\* begin, and the transaction is still committed.
C9_Witness ==
    /\ run[1].kind = "direct"
    /\ run[1].outcome = "refused"
    /\ committed[wtxn[1]] /\ ~aborted[wtxn[1]]

\* ------------------------------------------- claims on SpecTxn, continued

\* The positions of a thread inside the query loop of execute, and the
\* commit that follows the loop.
InLoop == {"acquire", "query", "release"}

\* C11 as claimed: no step of an execute that stays in the query loop or
\* goes on to its commit takes a key out of the locks of its transaction.
C11_StrictTwoPhase ==
    [][ \A th \in Threads :
          (wpc[th] \in InLoop /\ wpc'[th] \in InLoop \cup {"commit"}) =>
              \A k \in Keys :
                  HeldModes(record_locks, wtxn[th], k) # {} =>
                      HeldModes(record_locks', wtxn[th], k) # {} ]_vars

\* C11 amended: inside the query loop a transaction gives up its lock on a
\* key only when none of the queries still to run uses that key; a lock on
\* a key that a later query uses is kept until then.
C11_ReleaseAfterLastUse ==
    [][ \A th \in Threads :
          (wpc[th] \in InLoop /\ wpc'[th] \in InLoop \cup {"commit"}) =>
              \A k \in Keys :
                  (/\ HeldModes(record_locks, wtxn[th], k) # {}
                   /\ HeldModes(record_locks', wtxn[th], k) = {})
                  => \A j \in qi'[th]..Len(queries[wtxn[th]]) :
                         queries[wtxn[th]][j].key # k ]_vars

\* C11 witness: a query of an execute runs under its lock after the lock on
\* the key of an earlier query of the same execute was released.
C11_Witness ==
    \E th \in Threads :
        /\ wpc[th] = "query" /\ qi[th] > 1
        /\ HeldModes(record_locks, wtxn[th], queries[wtxn[th]][qi[th]].key) # {}
        /\ \E j \in 1..(qi[th] - 1) :
              HeldModes(record_locks, wtxn[th], queries[wtxn[th]][j].key) = {}

\* Threads that are inside execute between its begin and the return of its
\* commit or abort.
Executing == { th \in Threads : wpc[th] \notin {"idle", "begin"} }

\* C12: at no time are two transactions run by different workers both
\* between their begin and their commit or abort.
C12_WorkersSerialized == Cardinality(Executing) <= 1

\* C13: a worker counts a transaction as failed only after the first attempt
\* and MAX_RETRIES retries of execute, so its executes number at least one
\* for every success and MAX_RETRIES + 1 for every failure it has counted.
C13_RetriesBeforeFailure ==
    \A th \in Threads :
        wpc[th] = "idle" =>
            wcount[th] >= stats[th].success + (MAX_RETRIES + 1) * stats[th].failed

\* ================================================================== Table
\* lstore/page.py, lstore/table.py, lstore/index.py and lstore/query.py, at
\* the level of page slots.  The table has NumColumns user columns, key
\* column KeyColumn, and one base page and one tail page per column: fewer
\* than PageCapacity records are written, so no second page is opened.  The
\* bufferpool keeps every page pinned (nothing calls unpin_page), so no page
\* is evicted and a page is the list of the values written to it.  Fewer
\* than MERGE_THRESHOLD updates are made, so update_record never merges.
INDIRECTION_COLUMN     == 0
RID_COLUMN             == 1
TIMESTAMP_COLUMN       == 2
SCHEMA_ENCODING_COLUMN == 3

NumColumns   == 2       \* num_columns of the table
KeyColumn    == 0       \* key of the table
TotalColumns == NumColumns + 4
UserColumns  == 0..(NumColumns - 1)
PageCapacity == 512     \* Page.has_capacity

None == -1              \* Python None, where a value or a rid is expected

\* The 8-byte signed range of Page.write, scaled down: values up to
\* INT64_MAX fit, TooBig stands for an integer beyond the range.  Every rid
\* and every value that the model writes for the engine is below INT64_MAX.
INT64_MAX == 100
TooBig    == INT64_MAX + 1

FitsInt64(value) == value >= 0 - INT64_MAX - 1 /\ value <= INT64_MAX

\* time() is not modelled: every timestamp is 0.
Timestamp == 0

\* ------------------------------------------------------------------ Page
\* Page.write(value): num_records is incremented before the range check, so
\* a refused value still takes a slot, whose bytes stay zero.
PageAppend(page, value) ==
    IF Len(page) >= PageCapacity
    THEN [ok |-> FALSE, page |-> page]
    ELSE IF FitsInt64(value)
         THEN [ok |-> TRUE, page |-> Append(page, value)]
         ELSE [ok |-> FALSE, page |-> Append(page, 0)]

\* Page.write(value, index): overwrite an existing slot.
PageWriteAt(page, value, index) ==
    IF index >= Len(page) \/ ~FitsInt64(value)
    THEN [ok |-> FALSE, page |-> page]
    ELSE [ok |-> TRUE, page |-> [page EXCEPT ![index + 1] = value]]

\* Page.read(index)
PageRead(page, index) == IF index >= Len(page) THEN None ELSE page[index + 1]

\* ----------------------------------------------------------------- Table
\* The fields of a Table with its pages and its primary index, as one value.
TableState(pd, bp, tp, ix, nr, nrec, nupd) ==
    [page_directory |-> pd, base_pages |-> bp, tail_pages |-> tp, indices |-> ix,
     next_rid |-> nr, num_records |-> nrec, num_updates |-> nupd]

\* Table.__init__ with Index(self): empty pages, empty directory and index.
NewTable ==
    TableState(<<>>, [c \in 0..(TotalColumns - 1) |-> <<>>],
               [c \in 0..(TotalColumns - 1) |-> <<>>], <<>>, 0, 0, 0)

Entry(kind, page_index, slot) == [kind |-> kind, page_index |-> page_index, slot |-> slot]

Record(rid, columns, indirection, schema_encoding) ==
    [some |-> TRUE, rid |-> rid, key |-> columns[KeyColumn + 1], columns |-> columns,
     indirection |-> indirection, schema_encoding |-> schema_encoding]

NoRecord == [some |-> FALSE]

\* Table.get_record(rid): None for an unknown or deleted rid and when a user
\* column has no value at the slot; base pages for kind 'base', tail pages
\* for every other kind; the slot of page page_index of a column.
get_record(T, rid) ==
    IF rid \notin DOMAIN T.page_directory THEN NoRecord
    ELSE LET e     == T.page_directory[rid]
             pages == IF e.kind = "base" THEN T.base_pages ELSE T.tail_pages
             at    == e.page_index * PageCapacity + e.slot
             values == [i \in 1..NumColumns |-> PageRead(pages[i + 3], at)]
         IN IF e.kind = "deleted" THEN NoRecord
            ELSE IF \E i \in 1..NumColumns : values[i] = None THEN NoRecord
            ELSE Record(rid, values,
                        PageRead(pages[INDIRECTION_COLUMN], at),
                        PageRead(pages[SCHEMA_ENCODING_COLUMN], at))

\* Index.locate(table.key, value)
locate(T, value) == IF value \in DOMAIN T.indices THEN T.indices[value] ELSE None

\* Index.update_index(column, value, rid) on the key column: drop the entry
\* that points to rid, then map value to rid.
update_index(ix, value, rid) ==
    LET olds == {v \in DOMAIN ix : ix[v] = rid}
        kept == IF olds = {} THEN ix
                ELSE LET old_value == CHOOSE v \in olds : TRUE
                     IN [v \in DOMAIN ix \ {old_value} |-> ix[v]]
    IN (value :> rid) @@ kept

\* create_record, the loop over the data columns: append each value to its
\* base page and stop at the first write that fails.
RECURSIVE WriteColumns(_, _, _)
WriteColumns(bp, columns, i) ==
    IF i > Len(columns) THEN [ok |-> TRUE, pages |-> bp]
    ELSE LET w == PageAppend(bp[i + 3], columns[i])
             bp2 == [bp EXCEPT ![i + 3] = w.page]
         IN IF w.ok THEN WriteColumns(bp2, columns, i + 1)
                    ELSE [ok |-> FALSE, pages |-> bp2]

\* create_record, the four metadata writes of a new base record.
WriteBaseMetadata(bp, rid) ==
    [bp EXCEPT ![INDIRECTION_COLUMN]     = PageAppend(@, rid).page,
               ![RID_COLUMN]             = PageAppend(@, rid).page,
               ![TIMESTAMP_COLUMN]       = PageAppend(@, Timestamp).page,
               ![SCHEMA_ENCODING_COLUMN] = PageAppend(@, 0).page]

\* Table.create_record(*columns): the table after the call, whether a record
\* was returned, and the rid and slot it used. The record goes to the first
\* base page (page_index 0) while that page has capacity in every column,
\* and to a second page of every column once a page of the first is full,
\* which is so after the pages have been loaded from their files. The pages
\* of a column stand one after the other in base_pages[column], each first
\* page filled up to PageCapacity with slots that read None.
create_record(T, columns) ==
    LET rid  == T.next_rid
        page_index == IF \A c \in DOMAIN T.base_pages : Len(T.base_pages[c]) < PageCapacity
                      THEN 0 ELSE 1
        whole == IF page_index = 0 THEN T.base_pages
                 ELSE [c \in DOMAIN T.base_pages |->
                          IF Len(T.base_pages[c]) >= PageCapacity THEN T.base_pages[c]
                          ELSE T.base_pages[c] \o
                               [i \in 1..(PageCapacity - Len(T.base_pages[c])) |-> None]]
        first == [c \in DOMAIN whole |-> SubSeq(whole[c], 1, page_index * PageCapacity)]
        page  == [c \in DOMAIN whole |->
                     SubSeq(whole[c], page_index * PageCapacity + 1, Len(whole[c]))]
        slot == Len(page[INDIRECTION_COLUMN])
        w    == WriteColumns(WriteBaseMetadata(page, rid), columns, 1)
        T1   == [T EXCEPT !.next_rid = rid + 1,
                          !.base_pages = [c \in DOMAIN whole |-> first[c] \o w.pages[c]]]
    IN IF ~w.ok
       THEN [ok |-> FALSE, T |-> T1, rid |-> rid, slot |-> slot]
       ELSE [ok |-> TRUE, rid |-> rid, slot |-> slot,
             T |-> [T1 EXCEPT
                      !.page_directory = (rid :> Entry("base", page_index, slot)) @@ @,
                      !.indices = update_index(@, columns[KeyColumn + 1], rid),
                      !.num_records = @ + 1]]

\* Table._write_tail_record: every base value is appended to the tail page
\* of its column, then every new value that is not None is appended as
\* well; one entry goes to each metadata page; the slot registered for the
\* tail rid is the last slot of the indirection page.
RECURSIVE AppendEach(_, _, _)
AppendEach(tp, columns, i) ==
    IF i > Len(columns) THEN tp
    ELSE AppendEach(IF columns[i] = None THEN tp
                    ELSE [tp EXCEPT ![i + 3] = PageAppend(@, columns[i]).page],
                    columns, i + 1)

WriteTailMetadata(tp, base_record, tail_rid, schema_encoding) ==
    [tp EXCEPT ![INDIRECTION_COLUMN]     = PageAppend(@, base_record.indirection).page,
               ![RID_COLUMN]             = PageAppend(@, tail_rid).page,
               ![TIMESTAMP_COLUMN]       = PageAppend(@, Timestamp).page,
               ![SCHEMA_ENCODING_COLUMN] = PageAppend(@, schema_encoding).page]

\* The tail pages after the writes of _write_tail_record.
TailPagesAfter(tp, base_record, tail_rid, schema_encoding, new_columns) ==
    WriteTailMetadata(
        AppendEach(AppendEach(tp, base_record.columns, 1), new_columns, 1),
        base_record, tail_rid, schema_encoding)

\* tail_slot = get_num_records(tail_page_ids[0][page_idx]) - 1
TailSlot(tp) == Len(tp[INDIRECTION_COLUMN]) - 1

write_tail_record(T, base_record, tail_rid, schema_encoding, new_columns) ==
    LET tp == TailPagesAfter(T.tail_pages, base_record, tail_rid, schema_encoding,
                             new_columns)
    IN [T EXCEPT !.tail_pages = tp,
                 !.page_directory = (tail_rid :> Entry("tail", 0, TailSlot(tp))) @@ @]

\* Table._update_base_record: overwrite the slot that the page directory
\* now gives for base_rid, in the base pages.
RECURSIVE OverwriteEach(_, _, _, _)
OverwriteEach(bp, columns, slot, i) ==
    IF i > Len(columns) THEN bp
    ELSE OverwriteEach(IF columns[i] = None THEN bp
                       ELSE [bp EXCEPT ![i + 3] = PageWriteAt(@, columns[i], slot).page],
                       columns, slot, i + 1)

update_base_record(T, base_rid, tail_rid, schema_encoding, new_columns) ==
    LET base_slot == T.page_directory[base_rid].slot
        bp == OverwriteEach(T.base_pages, new_columns, base_slot, 1)
    IN [T EXCEPT !.base_pages =
          [bp EXCEPT ![INDIRECTION_COLUMN]     = PageWriteAt(@, tail_rid, base_slot).page,
                     ![TIMESTAMP_COLUMN]       = PageWriteAt(@, Timestamp, base_slot).page,
                     ![SCHEMA_ENCODING_COLUMN] = PageWriteAt(@, schema_encoding, base_slot).page]]

\* tail_rid = self.num_records + self.num_updates
tail_rid_of(T) == T.num_records + T.num_updates

\* Table.update_record(rid, schema_encoding, *columns), without a transaction.
update_record(T, rid, schema_encoding, columns) ==
    LET base_record == get_record(T, rid)
        tail_rid    == tail_rid_of(T)
    IN IF rid \notin DOMAIN T.page_directory \/ ~base_record.some
       THEN [ok |-> FALSE, T |-> T, tail_rid |-> None]
       ELSE LET T1 == write_tail_record(T, base_record, tail_rid, schema_encoding, columns)
                T2 == update_base_record(T1, rid, tail_rid, schema_encoding, columns)
            IN [ok |-> TRUE, tail_rid |-> tail_rid,
                T |-> [T2 EXCEPT !.num_updates = @ + 1]]

\* ----------------------------------------------------------------- Query
\* Query.insert(*columns)
insert(T, columns) ==
    IF Len(columns) # NumColumns
    THEN [ok |-> FALSE, T |-> T, rid |-> None, slot |-> None]
    ELSE create_record(T, columns)

\* Query.select(key, table.key, [1] * num_columns): the columns of the one
\* record returned, or found = FALSE where the code returns False.
NotFound == [found |-> FALSE]

select(T, key) ==
    LET rid == locate(T, key) IN
    IF rid = None THEN NotFound
    ELSE LET record == get_record(T, rid) IN
         IF ~record.some THEN NotFound
         ELSE IF record.key # key THEN NotFound
         ELSE [found |-> TRUE, columns |-> record.columns]

\* schema_encoding |= (1 << i) for every column given a value
RECURSIVE SchemaOf(_, _)
SchemaOf(columns, i) ==
    IF i > Len(columns) THEN 0
    ELSE (IF columns[i] = None THEN 0 ELSE 2 ^ (i - 1)) + SchemaOf(columns, i + 1)

\* Query.update(primary_key, *columns): the new values are overlaid on the
\* selected record and the whole row is passed to update_record.
update(T, primary_key, columns) ==
    LET current_record == select(T, primary_key) IN
    IF ~current_record.found THEN [ok |-> FALSE, T |-> T, tail_rid |-> None]
    ELSE LET new_columns == [i \in 1..NumColumns |->
                               IF columns[i] = None THEN current_record.columns[i]
                               ELSE columns[i]]
         IN update_record(T, locate(T, primary_key), SchemaOf(columns, 1), new_columns)

\* Query.delete(primary_key)
delete(T, primary_key) ==
    LET rid == locate(T, primary_key) IN
    IF rid = None \/ rid \notin DOMAIN T.page_directory THEN [ok |-> FALSE, T |-> T]
    ELSE IF T.page_directory[rid].kind # "base" THEN [ok |-> FALSE, T |-> T]
    ELSE [ok |-> TRUE,
          T |-> [T EXCEPT !.page_directory[rid].kind = "deleted",
                          !.indices = [v \in DOMAIN @ \ {primary_key} |-> @[v]]]]

\* Query.select_version, the walk along the indirections: the records met
\* after current_record, newest first.
RECURSIVE VersionChain(_, _, _)
VersionChain(T, current_record, visited) ==
    IF current_record.indirection = None
       \/ current_record.indirection \in visited
       \/ current_record.indirection = current_record.rid
    THEN << >>
    ELSE LET next_record == get_record(T, current_record.indirection) IN
         IF ~next_record.some THEN << >>
         ELSE <<next_record>> \o
              VersionChain(T, next_record, visited \cup {next_record.rid})

\* Query.select_version(key, table.key, [1] * num_columns, relative_version):
\* the columns of the one record returned; all None where the code returns
\* Record(None, key, [None] * n).
NoneColumns == [i \in 1..NumColumns |-> None]

select_version(T, key, relative_version) ==
    LET rid == locate(T, key) IN
    IF rid = None THEN NoneColumns
    ELSE LET base_record == get_record(T, rid) IN
         IF ~base_record.some THEN NoneColumns
         ELSE IF relative_version = 0 THEN base_record.columns
         ELSE LET versions == VersionChain(T, base_record, {rid}) IN
              IF versions = << >> THEN base_record.columns
              ELSE IF 0 - relative_version > Len(versions) THEN base_record.columns
              ELSE IF relative_version = -2 THEN versions[Len(versions)].columns
              ELSE IF relative_version = -1 THEN versions[1].columns
              ELSE base_record.columns

\* Index.locate_range(begin, end, column): its first statement calls
\* self._debug_log(message, 1), and Index._debug_log takes the message only,
\* so every call raises TypeError before the index is read.
locate_range(T, begin_key, end_key) == [raised |-> TRUE, rids |-> << >>]

\* Python False, which is the integer 0 where a number is expected.
False == [ok |-> FALSE, value |-> 0]

\* Query.sum(start_range, end_range, aggregate_column_index): False for a
\* column that does not exist and for every exception, which the call of
\* locate_range always raises; the loop over the rids is never reached.
sum(T, start_range, end_range, aggregate_column_index) ==
    IF aggregate_column_index >= NumColumns THEN False
    ELSE IF locate_range(T, start_range, end_range).raised THEN False
    ELSE [ok |-> TRUE, value |-> 0]


\* ------------------------------------------------- SpecTable: one caller
\* A single thread calls Query.insert, Query.update and Query.delete on one
\* table, in any order.  An insert may carry a key beyond the 8-byte range.
MaxInserts == 2         \* calls of create_record
MaxUpdates == 2         \* successful calls of update_record
NumKeys    == 2         \* primary keys are 1..NumKeys
MaxValue   == 2         \* values of the other column are 1..MaxValue

TKeys   == 1..NumKeys
TValues == 1..MaxValue

\* A row with the given key and one value in every other column.
Row(key, value) == <<key>> \o [i \in 1..(NumColumns - 1) |-> value]

InsertRows ==
    { <<key>> \o rest : key \in TKeys \cup {TooBig},
                        rest \in [1..(NumColumns - 1) -> TValues] }
UpdateRows ==
    { <<key>> \o rest : key \in TKeys \cup {None},
                        rest \in [1..(NumColumns - 1) -> TValues \cup {None}] }

\* The table held by the variables, and the variables after a call.
TheTable ==
    TableState(page_directory, base_pages, tail_pages, indices,
               next_rid, num_records, num_updates)

SetTable(T) ==
    /\ page_directory' = T.page_directory
    /\ base_pages' = T.base_pages
    /\ tail_pages' = T.tail_pages
    /\ indices' = T.indices
    /\ next_rid' = T.next_rid
    /\ num_records' = T.num_records
    /\ num_updates' = T.num_updates

\* Number of older versions select_version finds for key.
VersionCount(T, key) ==
    IF locate(T, key) = None \/ ~get_record(T, locate(T, key)).some THEN 0
    ELSE Len(VersionChain(T, get_record(T, locate(T, key)), {locate(T, key)}))

\* t_call: the call just made and its result; about the table before the
\* call: whether the primary index knew the key (known), what select(key)
\* returned (before) and how many older versions the key had (versions);
\* the rid the call gave to a new record (None if it gave none) and whether
\* that rid had been given out before (reused).
TCall(op, key, columns, ok, rid) ==
    [op |-> op, key |-> key, columns |-> columns, ok |-> ok, rid |-> rid,
     known    |-> key \in DOMAIN indices,
     before   |-> select(TheTable, key),
     versions |-> VersionCount(TheTable, key),
     reused   |-> rid \in assigned]

NoTCall == [op |-> "none", key |-> None, columns |-> << >>, ok |-> FALSE, rid |-> None,
            known |-> FALSE, before |-> NotFound, versions |-> 0, reused |-> FALSE]

NoWorkers == tpc = <<>> /\ tloc = <<>>

\* The variables hold table T.
TableIs(T) ==
    /\ page_directory = T.page_directory
    /\ base_pages = T.base_pages
    /\ tail_pages = T.tail_pages
    /\ indices = T.indices
    /\ next_rid = T.next_rid
    /\ num_records = T.num_records
    /\ num_updates = T.num_updates

InitTable ==
    /\ InitLockManager /\ NoTransactions
    /\ TableIs(NewTable)
    /\ t_call = NoTCall /\ assigned = {}
    /\ NoWorkers /\ NoPage /\ NoPool

\* The lock manager, the transactions, the single page and the bufferpool
\* are left alone.
NoLockStep == UNCHANGED <<lmVars, lm_call, txnVars>> /\ NoPageStep /\ NoPoolStep

Insert(columns) ==
    LET r == insert(TheTable, columns) IN
    /\ next_rid < MaxInserts
    /\ SetTable(r.T)
    /\ t_call' = TCall("insert", columns[KeyColumn + 1], columns, r.ok, r.rid)
    /\ assigned' = assigned \cup {r.rid}
    /\ UNCHANGED <<tpc, tloc>> /\ NoLockStep

Update(primary_key, columns) ==
    LET r == update(TheTable, primary_key, columns) IN
    /\ num_updates < MaxUpdates
    /\ SetTable(r.T)
    /\ t_call' = TCall("update", primary_key, columns, r.ok, r.tail_rid)
    /\ assigned' = assigned \cup ({r.tail_rid} \ {None})
    /\ UNCHANGED <<tpc, tloc>> /\ NoLockStep

Delete(primary_key) ==
    LET r == delete(TheTable, primary_key) IN
    /\ SetTable(r.T)
    /\ t_call' = TCall("delete", primary_key, << >>, r.ok, None)
    /\ UNCHANGED <<assigned, tpc, tloc>> /\ NoLockStep

NextTable ==
    \/ \E columns \in InsertRows : Insert(columns)
    \/ \E primary_key \in TKeys, columns \in UpdateRows : Update(primary_key, columns)
    \/ \E primary_key \in TKeys : Delete(primary_key)

SpecTable == InitTable /\ [][NextTable]_vars

\* ------------------------------------------- SpecWorkers: several callers
\* Every worker thread runs one transaction on a key of its own, worker th on
\* key th: either all run [insert(th, v)] on an empty table, or all run
\* [select(th), update(th, None, v)] on a table that holds the rows Row(th, 1),
\* inserted one after the other.  The keys are pairwise distinct, so no
\* acquire_lock of execute meets a lock of another transaction, and
\* TransactionWorker.run takes no other lock: the calls of create_record and
\* update_record by different workers interleave.  A worker can be
\* descheduled between any two statements; the steps below are the reads of
\* the shared counters and page counts and the groups of writes between them.
RECURSIVE Populate(_, _)
Populate(T, n) ==
    IF n = 0 THEN T ELSE create_record(Populate(T, n - 1), Row(n, 1)).T

Locals(op, key, columns) ==
    [op |-> op, key |-> key, columns |-> columns, ok |-> FALSE,
     rid |-> None, slot |-> None, tail_rid |-> None, tail_slot |-> None,
     base_record |-> NoRecord, new_columns |-> << >>, schema_encoding |-> 0]

InitWorkers ==
    /\ InitLockManager /\ NoTransactions /\ NoPage /\ NoPool
    /\ t_call = NoTCall /\ assigned = {}
    /\ tpc = [th \in Threads |-> "start"]
    /\ \E value \in [Threads -> TValues] :
          \/ /\ TableIs(NewTable)
             /\ tloc = [th \in Threads |-> Locals("insert", th, Row(th, value[th]))]
          \/ /\ TableIs(Populate(NewTable, NumThreads))
             /\ tloc = [th \in Threads |-> Locals("update", th, Row(None, value[th]))]

\* create_record: rid = self._get_next_rid()
CreateRid(th) ==
    /\ tpc[th] = "start" /\ tloc[th].op = "insert"
    /\ tloc' = [tloc EXCEPT ![th].rid = next_rid]
    /\ next_rid' = next_rid + 1
    /\ tpc' = [tpc EXCEPT ![th] = "slot"]
    /\ UNCHANGED <<page_directory, base_pages, tail_pages, indices, num_records,
                   num_updates>>

\* create_record: slot = self.bufferpool.get_num_records(...)
CreateSlot(th) ==
    /\ tpc[th] = "slot"
    /\ tloc' = [tloc EXCEPT ![th].slot = Len(base_pages[INDIRECTION_COLUMN])]
    /\ tpc' = [tpc EXCEPT ![th] = "metadata"]
    /\ UNCHANGED tableVars

\* create_record: the four metadata writes.
CreateMetadata(th) ==
    /\ tpc[th] = "metadata"
    /\ base_pages' = WriteBaseMetadata(base_pages, tloc[th].rid)
    /\ tpc' = [tpc EXCEPT ![th] = "data"]
    /\ UNCHANGED <<page_directory, tail_pages, indices, next_rid, num_records,
                   num_updates, tloc>>

\* create_record: the writes of the data columns.
CreateData(th) ==
    LET w == WriteColumns(base_pages, tloc[th].columns, 1) IN
    /\ tpc[th] = "data"
    /\ base_pages' = w.pages
    /\ tpc' = [tpc EXCEPT ![th] = IF w.ok THEN "register" ELSE "done"]
    /\ UNCHANGED <<page_directory, tail_pages, indices, next_rid, num_records,
                   num_updates, tloc>>

\* create_record: page directory, index, num_records; the record is returned.
CreateRegister(th) ==
    /\ tpc[th] = "register"
    /\ page_directory' =
          (tloc[th].rid :> Entry("base", 0, tloc[th].slot)) @@ page_directory
    /\ indices' = update_index(indices, tloc[th].columns[KeyColumn + 1], tloc[th].rid)
    /\ num_records' = num_records + 1
    /\ tloc' = [tloc EXCEPT ![th].ok = TRUE]
    /\ tpc' = [tpc EXCEPT ![th] = "done"]
    /\ UNCHANGED <<base_pages, tail_pages, next_rid, num_updates>>

\* The select of the transaction and Query.update up to the first lines of
\* update_record: the record is read and tail_rid is computed.
UpdateRead(th) ==
    LET current_record == select(TheTable, tloc[th].key)
        rid == locate(TheTable, tloc[th].key)
    IN
    /\ tpc[th] = "start" /\ tloc[th].op = "update"
    /\ IF ~current_record.found
       THEN /\ tpc' = [tpc EXCEPT ![th] = "done"]
            /\ UNCHANGED tloc
       ELSE /\ tpc' = [tpc EXCEPT ![th] = "tail"]
            /\ tloc' = [tloc EXCEPT
                          ![th].rid = rid,
                          ![th].base_record = get_record(TheTable, rid),
                          ![th].new_columns = [i \in 1..NumColumns |->
                               IF tloc[th].columns[i] = None
                               THEN current_record.columns[i]
                               ELSE tloc[th].columns[i]],
                          ![th].schema_encoding = SchemaOf(tloc[th].columns, 1),
                          ![th].tail_rid = tail_rid_of(TheTable)]
    /\ UNCHANGED tableVars

\* _write_tail_record: the writes to the tail pages.
UpdateTail(th) ==
    /\ tpc[th] = "tail"
    /\ tail_pages' = TailPagesAfter(tail_pages, tloc[th].base_record, tloc[th].tail_rid,
                                    tloc[th].schema_encoding, tloc[th].new_columns)
    /\ tpc' = [tpc EXCEPT ![th] = "tail_slot"]
    /\ UNCHANGED <<page_directory, base_pages, indices, next_rid, num_records,
                   num_updates, tloc>>

\* _write_tail_record: tail_slot is read and the tail rid is registered.
UpdateSlot(th) ==
    /\ tpc[th] = "tail_slot"
    /\ tloc' = [tloc EXCEPT ![th].tail_slot = TailSlot(tail_pages)]
    /\ page_directory' =
          (tloc[th].tail_rid :> Entry("tail", 0, TailSlot(tail_pages))) @@ page_directory
    /\ tpc' = [tpc EXCEPT ![th] = "base"]
    /\ UNCHANGED <<base_pages, tail_pages, indices, next_rid, num_records, num_updates>>

\* _update_base_record, then self.num_updates += 1; update returns True.
UpdateBase(th) ==
    /\ tpc[th] = "base"
    /\ base_pages' = update_base_record(TheTable, tloc[th].rid, tloc[th].tail_rid,
                                        tloc[th].schema_encoding,
                                        tloc[th].new_columns).base_pages
    /\ num_updates' = num_updates + 1
    /\ tloc' = [tloc EXCEPT ![th].ok = TRUE]
    /\ tpc' = [tpc EXCEPT ![th] = "done"]
    /\ UNCHANGED <<page_directory, tail_pages, indices, next_rid, num_records>>

\* A step of a worker leaves the lock manager and the transactions alone.
WorkerFrame == UNCHANGED <<t_call, assigned>> /\ NoLockStep

NextWorkers ==
    \/ \E th \in Threads : CreateRid(th) /\ WorkerFrame
    \/ \E th \in Threads : CreateSlot(th) /\ WorkerFrame
    \/ \E th \in Threads : CreateMetadata(th) /\ WorkerFrame
    \/ \E th \in Threads : CreateData(th) /\ WorkerFrame
    \/ \E th \in Threads : CreateRegister(th) /\ WorkerFrame
    \/ \E th \in Threads : UpdateRead(th) /\ WorkerFrame
    \/ \E th \in Threads : UpdateTail(th) /\ WorkerFrame
    \/ \E th \in Threads : UpdateSlot(th) /\ WorkerFrame
    \/ \E th \in Threads : UpdateBase(th) /\ WorkerFrame

SpecWorkers == InitWorkers /\ [][NextWorkers]_vars

\* All workers have been joined.
AllJoined == \A th \in Threads : tpc[th] = "done"

\* ----------------------------------------------- claims on SpecWorkers

\* C14: when the workers that ran insert transactions on distinct keys have
\* all been joined, select of each key returns the row inserted for it, and
\* no two of the rows were given the same base slot.
C14_ConcurrentInserts ==
    (AllJoined /\ \A th \in Threads : tloc[th].op = "insert") =>
        /\ \A th \in Threads :
              select(TheTable, tloc[th].key)
                  = [found |-> TRUE, columns |-> tloc[th].columns]
        /\ \A t1, t2 \in Threads : t1 # t2 => tloc[t1].slot # tloc[t2].slot

\* C15: no two of the concurrent updates on distinct keys are given the same
\* tail rid or the same tail slot, and when all workers have been joined the
\* current value of every key is the value its update wrote.
C15_ConcurrentUpdates ==
    /\ \A t1, t2 \in Threads :
          (t1 # t2 /\ tloc[t1].op = "update") =>
              /\ tloc[t1].tail_rid # None => tloc[t1].tail_rid # tloc[t2].tail_rid
              /\ tloc[t1].tail_slot # None => tloc[t1].tail_slot # tloc[t2].tail_slot
    /\ (AllJoined /\ \A th \in Threads : tloc[th].op = "update") =>
          \A th \in Threads :
              select(TheTable, tloc[th].key)
                  = [found |-> TRUE, columns |-> Row(tloc[th].key, tloc[th].columns[2])]

\* ------------------------------------------------- claims on SpecTable

\* C16: every rid given to a new base record (by an insert, successful or
\* failed) or to a new tail record (by an update) differs from every rid
\* given out earlier.
C16_RidsNeverReused == t_call.rid # None => ~t_call.reused

\* C17: right after a successful insert of a row whose key the primary index
\* did not know, select of that key returns one record with the inserted
\* values, whatever calls came before.
C17_InsertThenSelect ==
    (t_call.op = "insert" /\ t_call.ok /\ ~t_call.known) =>
        select(TheTable, t_call.key) = [found |-> TRUE, columns |-> t_call.columns]

\* C18: right after a successful update of key k, select_version(k, -1)
\* returns the columns k had just before the update.
C18_PreviousVersion ==
    (t_call.op = "update" /\ t_call.ok) =>
        select_version(TheTable, t_call.key, -1) = t_call.before.columns

\* The columns of a record after an update: the values given replace the
\* old ones, None leaves the old value.
Overlay(old_columns, columns) ==
    [i \in 1..NumColumns |-> IF columns[i] = None THEN old_columns[i] ELSE columns[i]]

\* C19: for every key of the primary index, select_version(k, 0) returns the
\* columns select(k) returns, and right after a successful update of k both
\* are the previous columns with the given values put in.
C19_CurrentVersion ==
    /\ \A k \in DOMAIN indices :
          select(TheTable, k) = [found |-> TRUE, columns |-> select_version(TheTable, k, 0)]
    /\ (t_call.op = "update" /\ t_call.ok) =>
          select_version(TheTable, t_call.key, 0)
              = Overlay(t_call.before.columns, t_call.columns)

\* C20: after the first update of a record, whose chain then has one older
\* version, select_version(k, -1) and select_version(k, -2) both return the
\* values the record had before that update.
C20_FloorsToOldest ==
    (t_call.op = "update" /\ t_call.ok /\ t_call.versions = 0) =>
        /\ select_version(TheTable, t_call.key, -1) = t_call.before.columns
        /\ select_version(TheTable, t_call.key, -2) = t_call.before.columns

\* The base records that can be read: kind 'base' in the page directory and
\* a value in every column.
LiveRids(T) ==
    { rid \in DOMAIN T.page_directory :
        T.page_directory[rid].kind = "base" /\ get_record(T, rid).some }

\* C21: for every key k held by a live base record the primary index maps
\* k to the rid of that record, and every rid the index holds is a live
\* base record whose key column is the key it is filed under.
C21_IndexResolvesLiveKeys ==
    /\ \A rid \in LiveRids(TheTable) :
          locate(TheTable, get_record(TheTable, rid).key) = rid
    /\ \A k \in DOMAIN indices :
          /\ indices[k] \in LiveRids(TheTable)
          /\ get_record(TheTable, indices[k]).key = k

\* The sum the table should give: the current value of column c of every
\* key in a..b that select finds, each key once.
RECURSIVE ExpectedSum(_, _, _, _)
ExpectedSum(T, a, b, c) ==
    IF a > b THEN 0
    ELSE (IF select(T, a).found THEN select(T, a).columns[c + 1] ELSE 0)
         + ExpectedSum(T, a + 1, b, c)

\* C22: sum(a, b, c) is the sum, over the live primary keys in a..b, of the
\* current value of column c, each key counted once.
C22_SumOverRange ==
    \A a \in TKeys, b \in TKeys, c \in UserColumns :
        sum(TheTable, a, b, c).value = ExpectedSum(TheTable, a, b, c)

\* C25: in every step an entry of the page directory stays, a base entry
\* stays base or becomes deleted, and that by delete, a tail entry stays
\* tail or becomes merged, and a deleted or merged entry keeps its kind.
C25_KindTransitions ==
    [][ \A rid \in DOMAIN page_directory :
          /\ rid \in DOMAIN page_directory'
          /\ LET old == page_directory[rid].kind
                 new == page_directory'[rid].kind
             IN /\ old = "base" => new \in {"base", "deleted"}
                /\ (old = "base" /\ new = "deleted") => t_call'.op = "delete"
                /\ old = "tail" => new \in {"tail", "merged"}
                /\ old \in {"deleted", "merged"} => new = old ]_vars

\* The walk of C30 from current_rid: every record met before the base rid
\* is a readable tail record met for the first time, and the base rid is
\* reached within the number of updates applied to the table (which is no
\* smaller than the number applied to the record).
RECURSIVE ChainReturns(_, _, _, _)
ChainReturns(T, base_rid, current_rid, visited) ==
    IF current_rid = base_rid THEN Cardinality(visited) <= T.num_updates
    ELSE /\ current_rid \in DOMAIN T.page_directory
         /\ T.page_directory[current_rid].kind = "tail"
         /\ current_rid \notin visited
         /\ get_record(T, current_rid).some
         /\ ChainReturns(T, base_rid, get_record(T, current_rid).indirection,
                         visited \cup {current_rid})

\* C30: from every live base record, following indirection meets only tail
\* records, no rid twice, and comes back to the rid of the base record
\* within as many steps as updates were applied.
C30_ChainsTerminate ==
    \A rid \in LiveRids(TheTable) :
        ChainReturns(TheTable, rid, get_record(TheTable, rid).indirection, {})

\* ------------------------------------------------- SpecPage: one Page
\* Calls of Page.write, appending or overwriting, on one page that starts
\* empty or one record short of full.
MaxWrites == 3          \* calls of Page.write

PageValues == {0 - TooBig - 1, 0 - TooBig, 1, INT64_MAX, TooBig}

\* A page after PageCapacity - 1 appends of the value 1.
AlmostFull == [i \in 1..(PageCapacity - 1) |-> 1]

PCall(op, value, index, ok) ==
    [op |-> op, value |-> value, index |-> index, ok |-> ok,
     before |-> page_data, n |-> p_call.n + 1]

NoPCall == [op |-> "none", value |-> None, index |-> None, ok |-> FALSE,
            before |-> << >>, n |-> 0]

InitPage ==
    /\ InitLockManager /\ NoTransactions /\ NoTableData /\ NoPool
    /\ page_data \in {<< >>, AlmostFull}
    /\ written = [i \in 0..(Len(page_data) - 1) |-> page_data[i + 1]]
    /\ p_call = NoPCall

NoOtherStep ==
    UNCHANGED <<lmVars, lm_call, txnVars>> /\ NoTableDataStep

\* page.write(value)
Write(value) ==
    LET w == PageAppend(page_data, value) IN
    /\ p_call.n < MaxWrites
    /\ page_data' = w.page
    /\ written' = IF w.ok THEN (Len(page_data) :> value) @@ written ELSE written
    /\ p_call' = PCall("append", value, None, w.ok)
    /\ NoOtherStep /\ NoPoolStep

\* page.write(value, index)
WriteAt(value, index) ==
    LET w == PageWriteAt(page_data, value, index) IN
    /\ p_call.n < MaxWrites
    /\ page_data' = w.page
    /\ written' = IF w.ok THEN (index :> value) @@ written ELSE written
    /\ p_call' = PCall("overwrite", value, index, w.ok)
    /\ NoOtherStep /\ NoPoolStep

\* The indexes tried by an overwrite: the first slot, the last slot and the
\* first index that is no slot.
PageIndexes == {0, Len(page_data) - 1, Len(page_data)} \cap Nat

NextPage ==
    \/ \E value \in PageValues : Write(value)
    \/ \E value \in PageValues, index \in PageIndexes : WriteAt(value, index)

SpecPage == InitPage /\ [][NextPage]_vars

\* ------------------------------------------------- claims on SpecPage

\* C26: after a write that returned failure (an append to a full page or of
\* a value outside the range, an overwrite at an index >= the count) the
\* page has the record count and the slot values it had before the call.
C26_FailedWriteKeepsPage ==
    (p_call.op # "none" /\ ~p_call.ok) => page_data = p_call.before

\* C27: the count stays within 0..512; a successful append adds one slot,
\* holding the value, at the former count; a successful overwrite keeps
\* the count; read(i) is the last value successfully written to slot i for
\* i below the count and absent from the count on.
C27_PageSlots ==
    /\ Len(page_data) \in 0..PageCapacity
    /\ (p_call.op = "append" /\ p_call.ok) =>
          /\ Len(page_data) = Len(p_call.before) + 1
          /\ PageRead(page_data, Len(p_call.before)) = p_call.value
    /\ (p_call.op = "overwrite" /\ p_call.ok) =>
          Len(page_data) = Len(p_call.before)
    /\ \A i \in 0..(Len(page_data) + 1) :
          IF i < Len(page_data)
          THEN i \in DOMAIN written /\ PageRead(page_data, i) = written[i]
          ELSE PageRead(page_data, i) = None

\* ------------------------------------------------------------ Bufferpool
PoolSize == 2           \* Bufferpool.pool_size
MaxCalls == 5           \* calls made to the pool

\* The page ids in use: one more than the pool is configured to hold.
PageIds == 1..(PoolSize + 1)

\* The value written through the pool.
PoolValue == 1

\* page.data: the 4096 bytes of the page, as its PageCapacity slots.
PageData(page) == page \o [i \in 1..(PageCapacity - Len(page)) |-> 0]

\* Bufferpool._write_page_to_disk
write_page_to_disk(files, page_id, page) ==
    [x \in DOMAIN files \cup {page_id} |->
        IF x = page_id THEN PageData(page) ELSE files[x]]

\* Bufferpool._load_page_from_disk: a new page where there is no file, else
\* the bytes of the file with num_records = len(data) // 8.
load_page_from_disk(files, page_id) ==
    IF page_id \in DOMAIN files THEN files[page_id] ELSE << >>

\* The pool, the LRU list and the files as one value, with the page a
\* call evicted (None = none) and whether it was written to its file.
PoolState(p, l, d, victim, flushed) ==
    [pool |-> p, lru |-> l, disk |-> d, victim |-> victim, flushed |-> flushed]

ThePool == PoolState(pool, lru, disk, None, FALSE)

\* list.remove(x): drop the first occurrence of x.
ListRemove(l, x) ==
    LET at == {i \in 1..Len(l) : l[i] = x} IN
    IF at = {} THEN l
    ELSE LET i == CHOOSE a \in at : \A b \in at : a <= b IN
         SubSeq(l, 1, i - 1) \o SubSeq(l, i + 1, Len(l))

\* evict_page that takes the least recently used page whatever its pin count.
evict_page_pinned(P) ==
    IF P.lru = << >> THEN P
    ELSE LET pool_key == P.lru[1]
             e == P.pool[pool_key]
         IN PoolState(RemoveKey(P.pool, pool_key),
                      ListRemove(P.lru, pool_key),
                      IF e.is_dirty
                      THEN write_page_to_disk(P.disk, pool_key, e.page)
                      ELSE P.disk,
                      pool_key, e.is_dirty)

\* Bufferpool._evict_page: the first page of the LRU list with pin count 0;
\* written to its file if dirty, then dropped.  Without such a page nothing
\* happens.  (_extract_page_info raises ValueError only for a key without
\* an underscore, and every key get_page builds has one.)
evict_page(P) ==
    LET unpinned == {i \in 1..Len(P.lru) : P.pool[P.lru[i]].pin_count = 0} IN
    IF unpinned = {} THEN P
    ELSE LET i == CHOOSE a \in unpinned : \A b \in unpinned : a <= b
             pool_key == P.lru[i]
             e == P.pool[pool_key]
         IN PoolState(RemoveKey(P.pool, pool_key),
                      ListRemove(P.lru, pool_key),
                      IF e.is_dirty
                      THEN write_page_to_disk(P.disk, pool_key, e.page)
                      ELSE P.disk,
                      pool_key, e.is_dirty)

\* Bufferpool.get_page
get_page(P, pool_key) ==
    IF pool_key \in DOMAIN P.pool
    THEN PoolState([P.pool EXCEPT ![pool_key].pin_count = @ + 1],
                   Append(ListRemove(P.lru, pool_key), pool_key),
                   P.disk, None, FALSE)
    ELSE LET page == load_page_from_disk(P.disk, pool_key)
             E == IF Cardinality(DOMAIN P.pool) >= PoolSize
                  THEN evict_page(P) ELSE P
         IN PoolState([x \in DOMAIN E.pool \cup {pool_key} |->
                          IF x = pool_key
                          THEN [page |-> page, pin_count |-> 1, is_dirty |-> FALSE]
                          ELSE E.pool[x]],
                      Append(E.lru, pool_key),
                      E.disk, E.victim, E.flushed)

\* Bufferpool.mark_dirty
mark_dirty(P, pool_key) ==
    IF pool_key \in DOMAIN P.pool
    THEN [P EXCEPT !.pool[pool_key].is_dirty = TRUE]
    ELSE P

\* Bufferpool.write_to_page; index None appends.  The page object is the one
\* in the pool, so what Page.write does to it shows there at once.
write_to_page(P, pool_key, value, index) ==
    LET G == get_page(P, pool_key)
        w == IF index = None
             THEN PageAppend(G.pool[pool_key].page, value)
             ELSE PageWriteAt(G.pool[pool_key].page, value, index)
        W == [G EXCEPT !.pool[pool_key].page = w.page]
    IN IF w.ok THEN mark_dirty(W, pool_key) ELSE W

\* Bufferpool.unpin_page
unpin_page(P, pool_key) ==
    IF pool_key \in DOMAIN P.pool /\ P.pool[pool_key].pin_count > 0
    THEN [P EXCEPT !.pool[pool_key].pin_count = @ - 1]
    ELSE P

\* Bufferpool.close: every dirty page is written to its file; the pool, the
\* pin counts and the dirty flags stay as they are.
close(P) ==
    [P EXCEPT !.disk = [x \in DOMAIN P.disk
                               \cup {k \in DOMAIN P.pool : P.pool[k].is_dirty} |->
                           IF x \in DOMAIN P.pool /\ P.pool[x].is_dirty
                           THEN PageData(P.pool[x].page)
                           ELSE P.disk[x]]]

\* -------------------------------------------------------------- SpecPool
\* One caller of a Bufferpool(PoolSize).  b_call is what the last call
\* evicted: the page, whether it was written to its file, and whether a
\* pinned page stood before it in the LRU list; n counts the calls.
BCall(R) ==
    [victim |-> R.victim, flushed |-> R.flushed, n |-> b_call.n + 1,
     skipped |-> /\ R.victim # None
                 /\ \E k \in DOMAIN pool :
                      /\ pool[k].pin_count > 0
                      /\ \E i, j \in 1..Len(lru) :
                            i < j /\ lru[i] = k /\ lru[j] = R.victim]

NoBCall == [victim |-> None, flushed |-> FALSE, n |-> 0, skipped |-> FALSE]

InitPool ==
    /\ InitLockManager /\ NoTransactions /\ NoTableData /\ NoPage
    /\ pool = << >>
    /\ lru = << >>
    /\ disk = << >>
    /\ b_call = NoBCall
    /\ NoDatabase

PoolStep(R) ==
    /\ pool' = R.pool
    /\ lru' = R.lru
    /\ disk' = R.disk
    /\ b_call' = BCall(R)
    /\ NoOtherStep /\ NoPageStep /\ NoDatabaseStep

\* get_page(table_name, page_id); read_from_page and get_num_records do the
\* same to the pool.
GetPage(pool_key) ==
    /\ b_call.n < MaxCalls
    /\ PoolStep(get_page(ThePool, pool_key))

\* write_to_page(table_name, page_id, value, index)
WriteToPage(pool_key, index) ==
    /\ b_call.n < MaxCalls
    /\ PoolStep(write_to_page(ThePool, pool_key, PoolValue, index))

\* unpin_page(table_name, page_id)
UnpinPage(pool_key) ==
    /\ b_call.n < MaxCalls
    /\ PoolStep(unpin_page(ThePool, pool_key))

\* mark_dirty(table_name, page_id)
MarkDirty(pool_key) ==
    /\ b_call.n < MaxCalls
    /\ PoolStep(mark_dirty(ThePool, pool_key))

\* close()
Close ==
    /\ b_call.n < MaxCalls
    /\ PoolStep(close(ThePool))

NextPool ==
    \/ \E pool_key \in PageIds : GetPage(pool_key)
    \/ \E pool_key \in PageIds, index \in {None, 0} : WriteToPage(pool_key, index)
    \/ \E pool_key \in PageIds : UnpinPage(pool_key)
    \/ \E pool_key \in PageIds : MarkDirty(pool_key)
    \/ Close

SpecPool == InitPool /\ [][NextPool]_vars

\* ------------------------------------------------- claims on SpecPool

\* C28: whatever calls were made, the number of pages held in the pool is
\* at most the configured capacity.
C28_PoolWithinCapacity == Cardinality(DOMAIN pool) <= PoolSize

LruPosition(pool_key) == CHOOSE i \in 1..Len(lru) : lru[i] = pool_key

\* C29: a page that leaves the pool had pin count 0 and stood in the LRU
\* list before every other page with pin count 0; if it was dirty its file
\* holds its data afterwards; a page with pin count > 0 stays in the pool;
\* get_page (alone or inside a read or a write) puts the page it names at
\* the most recently used end of the LRU list.
C29_Eviction ==
    [][/\ \A k \in DOMAIN pool \ DOMAIN pool' :
            /\ pool[k].pin_count = 0
            /\ \A j \in DOMAIN pool \ {k} :
                  pool[j].pin_count = 0 => LruPosition(k) < LruPosition(j)
            /\ pool[k].is_dirty =>
                  k \in DOMAIN disk' /\ disk'[k] = PageData(pool[k].page)
       /\ \A k \in DOMAIN pool : pool[k].pin_count > 0 => k \in DOMAIN pool'
       /\ \A k \in DOMAIN pool' :
            (k \in DOMAIN pool => pool'[k].pin_count > pool[k].pin_count) =>
               lru'[Len(lru')] = k
      ]_vars

\* A call evicted a dirty page, passing over a pinned page that stood
\* before it in the LRU list, and that page is still in the pool.
C29_Witness ==
    /\ b_call.victim # None
    /\ b_call.flushed
    /\ b_call.skipped
    /\ b_call.victim \in DOMAIN disk
    /\ b_call.victim \notin DOMAIN pool
    /\ \E k \in DOMAIN pool : k # lru[Len(lru)] /\ pool[k].pin_count > 0

\* C37: a dirty page that a call has flushed, by evicting it or by close,
\* comes back from its file as it was: the page that load_page_from_disk
\* then builds has the same number of records and the same value in every
\* slot, so a slot beyond the records reads None and has_capacity answers
\* as before.
C37_FlushLoadRoundTrip ==
    [][\A k \in DOMAIN pool :
          (/\ pool[k].is_dirty
           /\ k \in DOMAIN disk' /\ disk'[k] = PageData(pool[k].page)
           /\ (k \notin DOMAIN pool' \/ k \notin DOMAIN disk \/ disk[k] # disk'[k])) =>
             LET page == load_page_from_disk(disk', k) IN
             /\ Len(page) = Len(pool[k].page)
             /\ \A slot \in 0..(PageCapacity - 1) :
                   PageRead(page, slot) = PageRead(pool[k].page, slot)
      ]_vars

\* -------------------------------------------------------------- Database
\* Whether the pool holds the page of a column as dirty when the database
\* is closed: write_to_page marks a page dirty when a write to it succeeds.
\* Every write to a metadata page succeeds; a successful write to the page
\* of a user column leaves a key or a value there, which is never 0, while
\* a refused one leaves a 0.
IsDirty(page, column) ==
    IF column < 4 THEN Len(page) > 0
    ELSE \E i \in 1..Len(page) : page[i] # 0

\* Bufferpool.close, then _load_page_from_disk in the next process: a dirty
\* page comes back with its 4096 bytes and num_records = 512, any other
\* page has no file and comes back empty.
Reloaded(page, column) ==
    IF IsDirty(page, column) THEN PageData(page) ELSE << >>

\* json.dump in Database.close and Table.from_metadata in Database.open, on
\* the index of the key column: str(k) -> v, read back as int(k) -> int(v).
index_data(ix) == [k \in DOMAIN ix |-> ix[k]]

\* Database.close(path), then Database.open(path) in a new process: the
\* table that get_table returns.  _next_rid is not saved and starts at 0.
close_open(T) ==
    TableState(T.page_directory,
               [c \in DOMAIN T.base_pages |-> Reloaded(T.base_pages[c], c)],
               [c \in DOMAIN T.tail_pages |-> Reloaded(T.tail_pages[c], c)],
               index_data(T.indices),
               0, T.num_records, T.num_updates)

\* C23: for a table built by inserts and updates (no record deleted), the
\* table after close and open has the same page directory and the same
\* primary index, and select of every key returns what it returned before.
C23_CloseOpen ==
    (\A rid \in DOMAIN page_directory : page_directory[rid].kind # "deleted") =>
        LET R == close_open(TheTable) IN
        /\ R.page_directory = page_directory
        /\ R.indices = indices
        /\ \A key \in TKeys : select(R, key) = select(TheTable, key)

\* ----------------------------------------------------------------- merge
MERGE_THRESHOLD == 10   \* Table.MERGE_THRESHOLD

\* schema & (1 << i)
HasBit(schema, i) == (schema \div (2 ^ i)) % 2 = 1

\* Table.__merge, the while loop that collects the tail rids of a base
\* record: it ends at the first rid that get_record has no record for.
\* Nothing is written during the walk, so a walk that comes to a rid for the
\* second time goes on for ever (diverges).
RECURSIVE MergeChain(_, _, _)
MergeChain(T, current_rid, seen) ==
    LET tail_record == get_record(T, current_rid) IN
    IF ~tail_record.some THEN [diverges |-> FALSE, tail_rids |-> << >>]
    ELSE IF current_rid \in seen THEN [diverges |-> TRUE, tail_rids |-> << >>]
    ELSE LET rest == MergeChain(T, tail_record.indirection, seen \cup {current_rid})
         IN [diverges |-> rest.diverges, tail_rids |-> <<current_rid>> \o rest.tail_rids]

\* The keys of merge_candidates: the base rids whose record is there and
\* does not point to itself.
MergeCandidates(T) ==
    {rid \in DOMAIN T.page_directory :
        /\ T.page_directory[rid].kind = "base"
        /\ get_record(T, rid).some
        /\ get_record(T, rid).indirection # rid}

\* for tail_rid in reversed(tail_rids): the values of the columns named by
\* the schema of each tail record are taken over, the oldest record first.
RECURSIVE ApplyTails(_, _, _, _)
ApplyTails(T, tail_rids, k, final) ==
    IF k = 0 THEN final
    ELSE LET tail_record == get_record(T, tail_rids[k])
             taken == IF ~tail_record.some THEN final
                      ELSE [values |-> [i \in 1..NumColumns |->
                                          IF HasBit(tail_record.schema_encoding, i - 1)
                                          THEN tail_record.columns[i]
                                          ELSE final.values[i]],
                            schema |-> final.schema
                                       + SchemaOf([i \in 1..NumColumns |->
                                            IF HasBit(tail_record.schema_encoding, i - 1)
                                               /\ ~HasBit(final.schema, i - 1)
                                            THEN 0 ELSE None], 1)]
         IN ApplyTails(T, tail_rids, k - 1, taken)

\* for tail_rid in tail_rids: the directory entry becomes ('merged', 0, 0).
RECURSIVE MarkMerged(_, _, _)
MarkMerged(pd, tail_rids, k) ==
    IF k > Len(tail_rids) THEN pd
    ELSE MarkMerged(IF tail_rids[k] \in DOMAIN pd
                    THEN [pd EXCEPT ![tail_rids[k]] = Entry("merged", 0, 0)]
                    ELSE pd,
                    tail_rids, k + 1)

\* Table.__merge, the body of the second loop for one base record.
MergeRecord(T, base_rid, tail_rids) ==
    IF tail_rids = << >> THEN T
    ELSE LET base_record == get_record(T, base_rid)
             final == ApplyTails(T, tail_rids, Len(tail_rids),
                                 [values |-> base_record.columns, schema |-> 0])
             T1 == update_base_record(T, base_rid, base_rid, final.schema, final.values)
         IN [T1 EXCEPT !.page_directory = MarkMerged(@, tail_rids, 1)]

\* The second loop.  The candidates are taken in the order of their rids;
\* the code takes them in the order their rids entered the directory, which
\* comes to the same while one record at most has tail records.
RECURSIVE MergeEach(_, _, _)
MergeEach(T, T0, todo) ==
    IF todo = {} THEN T
    ELSE LET base_rid == CHOOSE r \in todo : \A o \in todo : r <= o
             tail_rids == MergeChain(T0, get_record(T0, base_rid).indirection, {}).tail_rids
         IN MergeEach(MergeRecord(T, base_rid, tail_rids), T0, todo \ {base_rid})

\* Table.__merge: the table afterwards, or diverges where the first loop
\* never ends.
merge(T) ==
    IF \E rid \in MergeCandidates(T) :
          MergeChain(T, get_record(T, rid).indirection, {}).diverges
    THEN [diverges |-> TRUE, T |-> T]
    ELSE [diverges |-> FALSE, T |-> MergeEach(T, T, MergeCandidates(T))]

\* Table.update_record with the merge check at its end; elapsed says
\* whether time() - last_merge_time > merge_interval.
update_record_merge(T, rid, schema_encoding, columns, elapsed) ==
    LET r == update_record(T, rid, schema_encoding, columns) IN
    IF r.ok /\ r.T.num_updates % MERGE_THRESHOLD = 0 /\ elapsed
    THEN LET m == merge(r.T) IN
         [ok |-> TRUE, T |-> m.T, tail_rid |-> r.tail_rid, diverges |-> m.diverges]
    ELSE [ok |-> r.ok, T |-> r.T, tail_rid |-> r.tail_rid, diverges |-> FALSE]

\* Query.update(primary_key, *columns)
update_merge(T, primary_key, columns, elapsed) ==
    LET current_record == select(T, primary_key) IN
    IF ~current_record.found
    THEN [ok |-> FALSE, T |-> T, tail_rid |-> None, diverges |-> FALSE]
    ELSE update_record_merge(T, locate(T, primary_key), SchemaOf(columns, 1),
                             Overlay(current_record.columns, columns), elapsed)

\* Table.rollback_record(rid, transaction_id): the base record takes the
\* columns and the schema of the record its indirection names, and its own
\* rid as indirection.
rollback_record(T, rid) ==
    IF rid \notin DOMAIN T.page_directory THEN [ok |-> FALSE, T |-> T]
    ELSE LET record == get_record(T, rid) IN
         IF ~record.some \/ record.indirection = rid THEN [ok |-> FALSE, T |-> T]
         ELSE LET prev_record == get_record(T, record.indirection) IN
              IF ~prev_record.some THEN [ok |-> FALSE, T |-> T]
              ELSE [ok |-> TRUE,
                    T |-> update_base_record(T, rid, rid, prev_record.schema_encoding,
                                             prev_record.columns)]

\* ------------------------------------------------------------- SpecMerge
\* One caller of insert, update and delete on a table that is two updates
\* short of MERGE_THRESHOLD: one record was inserted and then updated
\* MERGE_THRESHOLD - 2 times.  A call that does not return leaves t_call.op
\* at "merging" and the caller makes no further call.
\* The key of that record: the least of the keys.
MergedKey == CHOOSE key \in TKeys : \A other \in TKeys : key <= other

\* An update that gives value to every column but the key.
Change(value) == <<None>> \o [i \in 1..(NumColumns - 1) |-> value]

RECURSIVE Updated(_, _)
Updated(T, n) ==
    IF n = 0 THEN T
    ELSE update(Updated(T, n - 1), MergedKey, Change(1 + (n % MaxValue))).T

AlmostMerged == Updated(insert(NewTable, Row(MergedKey, 1)).T, MERGE_THRESHOLD - 2)

\* The rows inserted: a key other than MergedKey, or one beyond the range.
MergeInsertRows == {columns \in InsertRows : columns[KeyColumn + 1] # MergedKey}

InitMerge ==
    /\ InitLockManager /\ NoTransactions
    /\ TableIs(AlmostMerged)
    /\ t_call = NoTCall
    /\ assigned = 0..(AlmostMerged.num_records + AlmostMerged.num_updates - 1)
    /\ NoWorkers /\ NoPage /\ NoPool

InsertRow(columns) ==
    LET r == insert(TheTable, columns) IN
    /\ t_call.op # "merging"
    /\ next_rid < AlmostMerged.next_rid + MaxInserts
    /\ SetTable(r.T)
    /\ t_call' = TCall("insert", columns[KeyColumn + 1], columns, r.ok, r.rid)
    /\ assigned' = assigned \cup {r.rid}
    /\ UNCHANGED <<tpc, tloc>> /\ NoLockStep

UpdateRow(value, elapsed) ==
    LET r == update_merge(TheTable, MergedKey, Change(value), elapsed) IN
    /\ t_call.op # "merging"
    /\ num_updates < MERGE_THRESHOLD
    /\ SetTable(r.T)
    /\ t_call' = TCall(IF r.diverges THEN "merging" ELSE "update",
                       MergedKey, Change(value), r.ok, r.tail_rid)
    /\ assigned' = assigned \cup ({r.tail_rid} \ {None})
    /\ UNCHANGED <<tpc, tloc>> /\ NoLockStep

DeleteRow(primary_key) ==
    LET r == delete(TheTable, primary_key) IN
    /\ t_call.op # "merging"
    /\ SetTable(r.T)
    /\ t_call' = TCall("delete", primary_key, << >>, r.ok, None)
    /\ UNCHANGED <<assigned, tpc, tloc>> /\ NoLockStep

NextMerge ==
    \/ \E columns \in MergeInsertRows : InsertRow(columns)
    \/ \E value \in TValues, elapsed \in BOOLEAN : UpdateRow(value, elapsed)
    \/ \E primary_key \in TKeys : DeleteRow(primary_key)

SpecMerge == InitMerge /\ [][NextMerge]_vars

\* ------------------------------------------------ claims on SpecMerge

\* C24: get_record returns no record for a rid whose kind in the page
\* directory is deleted or merged (and so a record for kinds base and tail
\* only).
C24_GetRecordKinds ==
    \A rid \in DOMAIN page_directory :
        page_directory[rid].kind \in {"deleted", "merged"} =>
            ~get_record(TheTable, rid).some

\* ----------------------------------------- further claims on SpecTable

\* C31: the pages of all N+4 columns hold the same number of records, in
\* the base chain and in the tail chain, so the slot that the page
\* directory records for a rid has a value in every column.
C31_SlotAligned ==
    /\ \A c, d \in DOMAIN base_pages : Len(base_pages[c]) = Len(base_pages[d])
    /\ \A c, d \in DOMAIN tail_pages : Len(tail_pages[c]) = Len(tail_pages[d])
    /\ \A rid \in DOMAIN page_directory :
          LET e == page_directory[rid]
              pages == IF e.kind = "base" THEN base_pages ELSE tail_pages
          IN e.kind \in {"base", "tail"} =>
                \A c \in DOMAIN pages : e.slot < Len(pages[c])

\* C32: an insert that fails leaves the page directory, the index and the
\* record count as they were, and the table stays usable: select of the
\* key of an insert that succeeds returns the inserted values.
C32_FailedInsert ==
    [][t_call'.op = "insert" =>
          IF t_call'.ok
          THEN select(TheTable', t_call'.key)
                  = [found |-> TRUE, columns |-> t_call'.columns]
          ELSE /\ page_directory' = page_directory
               /\ indices' = indices
               /\ num_records' = num_records
      ]_vars

\* ---------------------------------------- further claims on SpecMerge

\* C33: the merge that update runs comes to an end, so no update call is
\* left inside a merge whose first loop goes on for ever.
C33_MergeTerminates == t_call.op # "merging"

\* ---------------------------------------------------------- SpecRollback
\* One caller of insert, update and rollback_record on a new table; a
\* record is updated MaxChain times at most.
MaxChain == 3           \* successful calls of update_record in SpecRollback

\* The rids that create_record gives out.
RollbackRids == 0..(MaxInserts - 1)

InitRollback == InitTable

UpdateValue(primary_key, value) ==
    LET r == update(TheTable, primary_key, Change(value)) IN
    /\ num_updates < MaxChain
    /\ SetTable(r.T)
    /\ t_call' = TCall("update", primary_key, Change(value), r.ok, r.tail_rid)
    /\ assigned' = assigned \cup ({r.tail_rid} \ {None})
    /\ UNCHANGED <<tpc, tloc>> /\ NoLockStep

\* rollback_record(rid, None)
RollbackRecord(rid) ==
    LET r == rollback_record(TheTable, rid) IN
    /\ SetTable(r.T)
    /\ t_call' = TCall("rollback", None, << >>, r.ok, rid)
    /\ UNCHANGED <<assigned, tpc, tloc>> /\ NoLockStep

NextRollback ==
    \/ \E columns \in InsertRows : Insert(columns)
    \/ \E primary_key \in TKeys, value \in TValues : UpdateValue(primary_key, value)
    \/ \E rid \in RollbackRids : RollbackRecord(rid)

SpecRollback == InitRollback /\ [][NextRollback]_vars

\* ---------------------------------------------- claims on SpecRollback

\* C34: rollback_record on the rid of a base record that was just updated
\* succeeds, and a current-version read of the record then returns the
\* columns it had before that update.
C34_RollbackUndoesUpdate ==
    [][(/\ t_call.op = "update" /\ t_call.ok
        /\ t_call'.op = "rollback"
        /\ t_call'.rid = locate(TheTable, t_call.key)) =>
          /\ t_call'.ok
          /\ get_record(TheTable', t_call'.rid).some
          /\ get_record(TheTable', t_call'.rid).columns = t_call.before.columns
      ]_vars

\* ---------------------------------------------------------- SpecVersions
\* select_version on a table whose indirection column holds any values:
\* one base record of rid 0 and MaxTails tail records of rids 1..MaxTails,
\* each live or deleted, each indirection any rid of the directory or the
\* one rid after them, which the directory does not know.
MaxTails == 2           \* tail records of the table in SpecVersions

ChainKey == CHOOSE key \in TKeys : \A other \in TKeys : key <= other

ChainTable(ind, kinds) ==
    TableState(
        [rid \in 0..MaxTails |->
            IF rid = 0 THEN Entry("base", 0, 0) ELSE Entry(kinds[rid], 0, rid - 1)],
        [c \in 0..(TotalColumns - 1) |->
            IF c = INDIRECTION_COLUMN THEN <<ind[0]>>
            ELSE IF c < 4 THEN <<0>> ELSE <<ChainKey>>],
        [c \in 0..(TotalColumns - 1) |->
            IF c = INDIRECTION_COLUMN THEN [i \in 1..MaxTails |-> ind[i]]
            ELSE IF c = RID_COLUMN THEN [i \in 1..MaxTails |-> i]
            ELSE IF c < 4 THEN [i \in 1..MaxTails |-> 0]
            ELSE [i \in 1..MaxTails |-> ChainKey]],
        ChainKey :> 0, MaxTails + 1, 1, MaxTails)

\* select_version up to the loop: the rid of the key and its base record.
\* w.done: the call has left the loop (or never entered it); w.steps: the
\* passes through the loop made so far.
ChainStart(T, key) ==
    LET rid == locate(T, key)
        base_record == IF rid = None THEN NoRecord ELSE get_record(T, rid)
    IN [op |-> "select_version", key |-> key, rid |-> rid,
        current_record |-> base_record,
        visited |-> IF base_record.some THEN {rid} ELSE {},
        versions |-> << >>, steps |-> 0,
        done |-> ~base_record.some]

\* One pass through the loop of select_version without the visited set: the
\* walk stops at a record that points to itself only.
ChainNext_unguarded(T, w) ==
    LET current_record == w.current_record IN
    IF current_record.indirection = None
       \/ current_record.indirection = current_record.rid
    THEN [w EXCEPT !.done = TRUE, !.steps = @ + 1]
    ELSE LET next_record == get_record(T, current_record.indirection) IN
         IF ~next_record.some THEN [w EXCEPT !.done = TRUE, !.steps = @ + 1]
         ELSE [w EXCEPT !.versions = Append(@, next_record),
                        !.visited = @ \cup {next_record.rid},
                        !.current_record = next_record,
                        !.steps = @ + 1]

\* One pass through the loop of select_version.
ChainNext(T, w) ==
    LET current_record == w.current_record IN
    IF current_record.indirection = None
       \/ current_record.indirection \in w.visited
       \/ current_record.indirection = current_record.rid
    THEN [w EXCEPT !.done = TRUE, !.steps = @ + 1]
    ELSE LET next_record == get_record(T, current_record.indirection) IN
         IF ~next_record.some THEN [w EXCEPT !.done = TRUE, !.steps = @ + 1]
         ELSE [w EXCEPT !.versions = Append(@, next_record),
                        !.visited = @ \cup {next_record.rid},
                        !.current_record = next_record,
                        !.steps = @ + 1]

InitVersions ==
    /\ InitLockManager /\ NoTransactions
    /\ \E ind \in [0..MaxTails -> 0..(MaxTails + 1)],
          kinds \in [1..MaxTails -> {"tail", "deleted"}] :
            TableIs(ChainTable(ind, kinds))
    /\ t_call = NoTCall /\ assigned = {}
    /\ NoWorkers /\ NoPage /\ NoPool

Walking == t_call.op = "select_version" /\ ~t_call.done

SelectVersion(key) ==
    /\ ~Walking
    /\ t_call' = ChainStart(TheTable, key)
    /\ UNCHANGED <<tableVars, assigned, tpc, tloc>> /\ NoLockStep

ChainStep ==
    /\ Walking
    /\ t_call' = ChainNext(TheTable, t_call)
    /\ UNCHANGED <<tableVars, assigned, tpc, tloc>> /\ NoLockStep

NextVersions ==
    \/ \E key \in TKeys : SelectVersion(key)
    \/ ChainStep

SpecVersions == InitVersions /\ [][NextVersions]_vars

\* ---------------------------------------------- claims on SpecVersions

\* C35: select_version comes to an end whatever the page directory and the
\* indirections hold: the walk along the indirections meets no rid twice,
\* never comes back to the base rid, and makes no more passes through its
\* loop than the page directory has rids.
C35_SelectVersionTerminates ==
    t_call.op = "select_version" =>
        /\ \A i, j \in 1..Len(t_call.versions) :
              t_call.versions[i].rid = t_call.versions[j].rid => i = j
        /\ \A i \in 1..Len(t_call.versions) : t_call.versions[i].rid # t_call.rid
        /\ t_call.steps <= Cardinality(DOMAIN page_directory)
        /\ t_call.done =>
              t_call.versions =
                 IF t_call.current_record.some
                 THEN VersionChain(TheTable, get_record(TheTable, t_call.rid), {t_call.rid})
                 ELSE << >>

\* The walk has ended at a record whose indirection leads back into the
\* chain, to a record other than itself and other than the base record.
C35_Witness ==
    /\ t_call.op = "select_version" /\ t_call.done
    /\ t_call.current_record.some
    /\ Len(t_call.versions) >= 2
    /\ t_call.current_record.indirection \in t_call.visited \ {t_call.rid}
    /\ t_call.current_record.indirection # t_call.current_record.rid

\* ------------------------------------------------------------- SpecIndex
\* One caller of insert, update, delete, create_index and rebuild_index on
\* a new table.

\* The loop of create_index and of rebuild_index over the page directory, in
\* the order the rids entered it, from rid on: every rid whose get_record
\* finds a record maps the record's value in column to the rid.
RECURSIVE BuildIndex(_, _, _, _)
BuildIndex(T, column, rid, index) ==
    IF rid >= T.next_rid THEN index
    ELSE LET record == get_record(T, rid) IN
         BuildIndex(T, column, rid + 1,
                    IF record.some THEN (record.columns[column + 1] :> rid) @@ index
                                   ELSE index)

\* Index.create_index(column): the new index of the column, and the table,
\* whose primary index it replaces when column is the key column.
create_index(T, column) ==
    IF column >= NumColumns THEN [ok |-> FALSE, index |-> <<>>, T |-> T]
    ELSE LET index == BuildIndex(T, column, 0, <<>>) IN
         [ok |-> TRUE, index |-> index,
          T |-> IF column = KeyColumn THEN [T EXCEPT !.indices = index] ELSE T]

\* Index.rebuild_index(): the primary index built anew; no other column has
\* an index afterwards.
rebuild_index(T) ==
    LET index == BuildIndex(T, KeyColumn, 0, <<>>) IN
    [ok |-> TRUE, index |-> index, T |-> [T EXCEPT !.indices = index]]

InitIndex == InitTable

CreateIndex(column) ==
    LET r == create_index(TheTable, column) IN
    /\ SetTable(r.T)
    /\ t_call' = TCall("create_index", None, << >>, r.ok, None)
                    @@ [column |-> column, index |-> r.index]
    /\ UNCHANGED <<assigned, tpc, tloc>> /\ NoLockStep

RebuildIndex ==
    LET r == rebuild_index(TheTable) IN
    /\ SetTable(r.T)
    /\ t_call' = TCall("rebuild_index", None, << >>, r.ok, None)
                    @@ [column |-> KeyColumn, index |-> r.index]
    /\ UNCHANGED <<assigned, tpc, tloc>> /\ NoLockStep

NextIndex ==
    \/ \E columns \in InsertRows : Insert(columns)
    \/ \E primary_key \in TKeys, value \in TValues : UpdateValue(primary_key, value)
    \/ \E primary_key \in TKeys : Delete(primary_key)
    \/ \E column \in 0..(NumColumns - 1) : CreateIndex(column)
    \/ RebuildIndex

SpecIndex == InitIndex /\ [][NextIndex]_vars

\* ------------------------------------------------- claims on SpecIndex

\* The primary index of T maps key to the rid of a live base record that
\* holds the key.
FindsLive(T, key) ==
    LET found == locate(T, key) IN
    /\ found \in DOMAIN T.page_directory
    /\ T.page_directory[found].kind = "base"
    /\ get_record(T, found).some
    /\ get_record(T, found).columns[KeyColumn + 1] = key

InitReopen == InitTable

\* db.close(path); db = Database(); db.open(path); db.get_table(name)
Reopen ==
    /\ \A c \in DOMAIN base_pages : Len(base_pages[c]) <= PageCapacity
    /\ SetTable(close_open(TheTable))
    /\ t_call' = TCall("reopen", None, << >>, TRUE, None)
    /\ UNCHANGED <<assigned, tpc, tloc>> /\ NoLockStep

NextReopen ==
    \/ \E columns \in InsertRows : Insert(columns)
    \/ \E primary_key \in TKeys : Delete(primary_key)
    \/ Reopen

SpecReopen == InitReopen /\ [][NextReopen]_vars

\* ------------------------------------------------ claims on SpecReopen

\* C38: the rid that an insert gives to its record is not in the page
\* directory before the call, also when the table has come back from a
\* close and open, so the insert leaves the entry of every rid of the
\* directory as it was.
C38_RidsUniqueAcrossRestart ==
    [][(t_call'.op = "insert" /\ t_call'.rid # None) =>
          /\ t_call'.rid \notin DOMAIN page_directory
          /\ \A rid \in DOMAIN page_directory :
                page_directory'[rid] = page_directory[rid]
      ]_vars

\* ---------------------------------------------------------------- SpecDb
\* Callers of begin_transaction and commit_transaction on one Database; a
\* caller commits an id that begin_transaction gave out and that has not
\* been committed since.
MaxDbCalls == 8         \* calls of begin_transaction and commit_transaction

TransactionIds == 0..MaxDbCalls

\* Database.begin_transaction(): the id returned and the active set after.
begin_transaction(active) ==
    LET transaction_id == Cardinality(active) IN
    [transaction_id |-> transaction_id, active |-> active \cup {transaction_id}]

\* Database.commit_transaction(transaction_id): the active set after.
commit_transaction(active, transaction_id) == active \ {transaction_id}

\* d_call.open: for every id, how many transactions were begun with it and
\* not committed yet; d_call.fresh: the id a begin returned was not in the
\* active set when it was called.
RECURSIVE Total(_, _)
Total(open, ids) ==
    IF ids = {} THEN 0
    ELSE LET id == CHOOSE x \in ids : TRUE IN open[id] + Total(open, ids \ {id})

InitDb ==
    /\ InitLockManager /\ NoTransactions /\ NoTableData /\ NoPage
    /\ pool = <<>> /\ lru = <<>> /\ disk = <<>> /\ b_call = <<>>
    /\ active_transactions = {}
    /\ d_call = [op |-> "none", id |-> None, fresh |-> TRUE, n |-> 0,
                 open |-> [id \in TransactionIds |-> 0]]

NoDbOtherStep == NoOtherStep /\ NoPageStep /\ UNCHANGED poolVars

BeginTransaction ==
    LET r == begin_transaction(active_transactions) IN
    /\ d_call.n < MaxDbCalls
    /\ active_transactions' = r.active
    /\ d_call' = [op |-> "begin", id |-> r.transaction_id,
                  fresh |-> r.transaction_id \notin active_transactions,
                  n |-> d_call.n + 1,
                  open |-> [d_call.open EXCEPT ![r.transaction_id] = @ + 1]]
    /\ NoDbOtherStep

CommitTransaction(transaction_id) ==
    /\ d_call.n < MaxDbCalls
    /\ d_call.open[transaction_id] > 0
    /\ active_transactions' = commit_transaction(active_transactions, transaction_id)
    /\ d_call' = [op |-> "commit", id |-> transaction_id, fresh |-> TRUE,
                  n |-> d_call.n + 1,
                  open |-> [d_call.open EXCEPT ![transaction_id] = @ - 1]]
    /\ NoDbOtherStep

NextDb ==
    \/ BeginTransaction
    \/ \E transaction_id \in TransactionIds : CommitTransaction(transaction_id)

SpecDb == InitDb /\ [][NextDb]_vars

\* ---------------------------------------------------- claims on SpecDb

\* C40: the id that begin_transaction returns is the id of no transaction
\* in the active set, and the active set has as many members as there are
\* transactions begun and not committed.
C40_FreshTransactionId ==
    /\ d_call.fresh
    /\ Cardinality(active_transactions) = Total(d_call.open, TransactionIds)

====
